---- MODULE Spec2Model ----
(***************************************************************************)
(* EduTrack: the relational store (schema, constraints, row-level-security *)
(* policies, triggers) of the supabase migration, and the statements the   *)
(* pages issue against it.                                                 *)
(*                                                                         *)
(* Numbers: a score a client sends is an integer count of thousandths      *)
(* (80.01 is 80010); a DECIMAL(5,2) value the store holds is an integer    *)
(* count of hundredths (80.01 is 8001).  A nullable value is a set: {} is  *)
(* NULL and {v} is the value v.  Timestamps (created_at, updated_at and    *)
(* the update_updated_at_column trigger) and the free-text columns that no *)
(* constraint or policy reads are left out of the rows.                    *)
(***************************************************************************)
EXTENDS Integers, FiniteSets, Sequences, TLC

\* ------------------------------------------------------------------ bounds
MaxUsers == 2
MaxStudents == 2
MaxSubjects == 2
MaxDates == 2
MaxAttendanceRows == 2
MaxGradeRows == 2
MaxRoleRows == 2
MaxStoreRows == 1

Users == 1..MaxUsers
StudentIds == 1..MaxStudents
SubjectIds == 1..MaxSubjects
Dates == 1..MaxDates
AttendanceIds == 1..MaxAttendanceRows
GradeIds == 1..MaxGradeRows
RoleIds == 1..MaxRoleRows
IdNumbers == {"A-1", "A-2"}
SubjectNames == {"Math", "Art"}

\* ------------------------------------------------------------ program constants
ScoreMin == 0
ScoreMax == 10000
DecimalLimit == 100000

app_role == {"admin", "teacher", "student"}

NULL == {}
IsNull(x) == x = {}
Val(x) == CHOOSE v \in x : TRUE

\* ------------------------------------------------------------------- state
VARIABLES accounts, profiles, user_roles, students, subjects, attendance,
          grades, op

\* The pages of the client, each a function from the users who have the page
\* open to the page's React state; net holds the reads that pages have sent
\* and whose responses have not arrived; toast is, for every user, the
\* notification shown last.
VARIABLES studentsPage, subjectsPage, gradesPage, attendancePage, net, toast

storeVars == <<accounts, profiles, user_roles, students, subjects, attendance,
               grades>>

pageVars == <<studentsPage, subjectsPage, gradesPage, attendancePage, net, toast>>

vars == <<accounts, profiles, user_roles, students, subjects, attendance,
          grades, op, studentsPage, subjectsPage, gradesPage, attendancePage,
          net, toast>>

\* The statement the store executed last: its table, command and caller, the
\* number of rows it affected or returned, and its outcome: "ok", or the error
\* that rolled it back ("rls": a row-level-security policy; "check", "unique",
\* "fk", "not_null": that constraint; "generated": a value for a generated
\* column; "overflow": a number DECIMAL(5,2) cannot hold).
\* cascaded counts the dependent rows an ON DELETE CASCADE removed with it.
NoOp ==
  [table |-> "none", cmd |-> "none", caller |-> 0, status |-> "ok", rows |-> 0,
   cascaded |-> 0]

Done(table, cmd, caller, out) ==
  [table |-> table, cmd |-> cmd, caller |-> caller, status |-> out.status,
   rows |-> out.rows, cascaded |-> 0]

\* ----------------------------------------------------------------- numerics
\* n/d rounded to the nearest integer, halves away from zero (numeric rounding).
RoundDiv(n, d) ==
  IF n >= 0 THEN (2 * n + d) \div (2 * d) ELSE -((2 * (-n) + d) \div (2 * d))

\* The assignment cast of a client number to DECIMAL(5,2): NULL stays NULL, a
\* value is rounded to two decimals; Overflows says the cast raises an error.
ToDecimal(x) == IF IsNull(x) THEN NULL ELSE {RoundDiv(Val(x), 10)}

Overflows(x) ==
  /\ ~IsNull(x)
  /\ \/ RoundDiv(Val(x), 10) >= DecimalLimit
     \/ RoundDiv(Val(x), 10) <= -DecimalLimit

\* CHECK (score >= 0 AND score <= 100): a NULL score makes the condition
\* unknown, which a CHECK constraint accepts.
\* (variant: the upper limit is left out of the constraint)
ScoreCheck_no_upper(s) == IsNull(s) \/ Val(s) >= ScoreMin

ScoreCheck(s) == IsNull(s) \/ (Val(s) >= ScoreMin /\ Val(s) <= ScoreMax)

\* GENERATED ALWAYS AS ((partial_score + exam_score) / 2) STORED, DECIMAL(5,2)
\* (variant: the quotient is cut to two decimals instead of rounded)
GeneratedAverage_truncated(p, e) ==
  IF IsNull(p) \/ IsNull(e) THEN NULL ELSE {(Val(p) + Val(e)) \div 2}

GeneratedAverage(p, e) ==
  IF IsNull(p) \/ IsNull(e) THEN NULL ELSE {RoundDiv(Val(p) + Val(e), 2)}

\* ---------------------------------------------------------------- has_role
\* (variant: any assignment of the user counts, whatever its role)
has_role_any(_user_id, _role) ==
  \E r \in user_roles : r.user_id = _user_id

has_role(_user_id, _role) ==
  \E r \in user_roles : r.user_id = _user_id /\ r.role = _role


\* ------------------------------------------------------ row-level security
\* Every policy of the migration: its table, the command it is FOR and its
\* name.  All are permissive and TO authenticated.
\* (variant: "Users can view own roles" is declared FOR ALL)
Policies_own_roles_all ==
  { [table |-> "profiles",   cmd |-> "SELECT", name |-> "Users can view all profiles"],
    [table |-> "profiles",   cmd |-> "UPDATE", name |-> "Users can update own profile"],
    [table |-> "user_roles", cmd |-> "ALL",    name |-> "Users can view own roles"],
    [table |-> "user_roles", cmd |-> "ALL",    name |-> "Admins can manage all roles"],
    [table |-> "students",   cmd |-> "SELECT", name |-> "Authenticated users can view students"],
    [table |-> "students",   cmd |-> "ALL",    name |-> "Admins and teachers can manage students"],
    [table |-> "subjects",   cmd |-> "SELECT", name |-> "Authenticated users can view subjects"],
    [table |-> "subjects",   cmd |-> "ALL",    name |-> "Admins and teachers can manage subjects"],
    [table |-> "attendance", cmd |-> "SELECT", name |-> "Authenticated users can view attendance"],
    [table |-> "attendance", cmd |-> "ALL",    name |-> "Teachers and admins can manage attendance"],
    [table |-> "grades",     cmd |-> "SELECT", name |-> "Authenticated users can view grades"],
    [table |-> "grades",     cmd |-> "ALL",    name |-> "Teachers and admins can manage grades"] }

\* (variant: "Users can update own profile" is declared FOR ALL)
Policies_own_profile_all ==
  { [table |-> "profiles",   cmd |-> "SELECT", name |-> "Users can view all profiles"],
    [table |-> "profiles",   cmd |-> "ALL",    name |-> "Users can update own profile"],
    [table |-> "user_roles", cmd |-> "SELECT", name |-> "Users can view own roles"],
    [table |-> "user_roles", cmd |-> "ALL",    name |-> "Admins can manage all roles"],
    [table |-> "students",   cmd |-> "SELECT", name |-> "Authenticated users can view students"],
    [table |-> "students",   cmd |-> "ALL",    name |-> "Admins and teachers can manage students"],
    [table |-> "subjects",   cmd |-> "SELECT", name |-> "Authenticated users can view subjects"],
    [table |-> "subjects",   cmd |-> "ALL",    name |-> "Admins and teachers can manage subjects"],
    [table |-> "attendance", cmd |-> "SELECT", name |-> "Authenticated users can view attendance"],
    [table |-> "attendance", cmd |-> "ALL",    name |-> "Teachers and admins can manage attendance"],
    [table |-> "grades",     cmd |-> "SELECT", name |-> "Authenticated users can view grades"],
    [table |-> "grades",     cmd |-> "ALL",    name |-> "Teachers and admins can manage grades"] }

Policies ==
  { [table |-> "profiles",   cmd |-> "SELECT", name |-> "Users can view all profiles"],
    [table |-> "profiles",   cmd |-> "UPDATE", name |-> "Users can update own profile"],
    [table |-> "user_roles", cmd |-> "SELECT", name |-> "Users can view own roles"],
    [table |-> "user_roles", cmd |-> "ALL",    name |-> "Admins can manage all roles"],
    [table |-> "students",   cmd |-> "SELECT", name |-> "Authenticated users can view students"],
    [table |-> "students",   cmd |-> "ALL",    name |-> "Admins and teachers can manage students"],
    [table |-> "subjects",   cmd |-> "SELECT", name |-> "Authenticated users can view subjects"],
    [table |-> "subjects",   cmd |-> "ALL",    name |-> "Admins and teachers can manage subjects"],
    [table |-> "attendance", cmd |-> "SELECT", name |-> "Authenticated users can view attendance"],
    [table |-> "attendance", cmd |-> "ALL",    name |-> "Teachers and admins can manage attendance"],
    [table |-> "grades",     cmd |-> "SELECT", name |-> "Authenticated users can view grades"],
    [table |-> "grades",     cmd |-> "ALL",    name |-> "Teachers and admins can manage grades"] }

\* The USING expression of a policy, for the caller uid (auth.uid()) and a row.
\* (variant: "Admins can manage all roles" lets users manage their own roles)
PolicyUsing_own_roles(name, uid, row) ==
  CASE name \in {"Users can view all profiles",
                 "Authenticated users can view students",
                 "Authenticated users can view subjects",
                 "Authenticated users can view attendance",
                 "Authenticated users can view grades"} -> TRUE
    [] name = "Users can update own profile" -> uid = row.id
    [] name \in {"Users can view own roles", "Admins can manage all roles"} ->
         uid = row.user_id
    [] OTHER -> has_role(uid, "admin") \/ has_role(uid, "teacher")

\* (variant: "Users can update own profile" is written USING (true))
PolicyUsing_any_profile(name, uid, row) ==
  CASE name \in {"Users can view all profiles",
                 "Users can update own profile",
                 "Authenticated users can view students",
                 "Authenticated users can view subjects",
                 "Authenticated users can view attendance",
                 "Authenticated users can view grades"} -> TRUE
    [] name = "Users can view own roles" -> uid = row.user_id
    [] name = "Admins can manage all roles" -> has_role(uid, "admin")
    [] OTHER -> has_role(uid, "admin") \/ has_role(uid, "teacher")

PolicyUsing(name, uid, row) ==
  CASE name = "Users can view all profiles" -> TRUE
    [] name = "Users can update own profile" -> uid = row.id
    [] name = "Users can view own roles" -> uid = row.user_id
    [] name = "Admins can manage all roles" -> has_role(uid, "admin")
    [] name \in {"Authenticated users can view students",
                 "Authenticated users can view subjects",
                 "Authenticated users can view attendance",
                 "Authenticated users can view grades"} -> TRUE
    [] name \in {"Admins and teachers can manage students",
                 "Admins and teachers can manage subjects",
                 "Teachers and admins can manage attendance",
                 "Teachers and admins can manage grades"} ->
         has_role(uid, "admin") \/ has_role(uid, "teacher")

\* The policies that apply to a command: those FOR it and those FOR ALL.
\* (variant: a FOR SELECT policy is taken to be the table's only read rule
\* and is passed over, leaving reads to the FOR ALL policy)
Applicable_no_select(table, cmd) ==
  {p \in Policies : p.table = table /\ p.cmd = "ALL"}

Applicable(table, cmd) ==
  {p \in Policies : p.table = table /\ p.cmd \in {cmd, "ALL"}}

\* Permissive policies are OR-ed; with none applicable the default is deny.
Permits(table, cmd, uid, row) ==
  \E p \in Applicable(table, cmd) : PolicyUsing(p.name, uid, row)

\* An UPDATE or DELETE acts on the rows its own policies and the SELECT
\* policies let the caller see; the others are skipped without an error.
RowVisible(table, cmd, uid, row) ==
  Permits(table, cmd, uid, row) /\ Permits(table, "SELECT", uid, row)

\* No policy states WITH CHECK, so its USING expression checks the new row of
\* an INSERT or UPDATE; a failing check is an error.
WithCheck(table, cmd, uid, row) == Permits(table, cmd, uid, row)

\* What a SELECT without filters returns to the caller.
Visible(table, rel, uid) == {r \in rel : Permits(table, "SELECT", uid, r)}

\* gen_random_uuid(): an id no row of the table holds (0 when the pool of the
\* model is used up).
FreshId(pool, rel) ==
  LET free == pool \ {r.id : r \in rel}
  IN IF free = {} THEN 0 ELSE CHOOSE i \in free : \A j \in free : i <= j

Outcome(status, rows, rel) == [status |-> status, rows |-> rows, rel |-> rel]

\* ----------------------------------------------------------------- students
\* id_number UNIQUE
\* (variant: id_number is declared without UNIQUE)
students_unique_none(rel) == TRUE

students_unique(rel) ==
  \A a, b \in rel : a.id_number = b.id_number => a = b

students_insert(uid, id_number) ==
  LET row == [id |-> FreshId(StudentIds, students), id_number |-> id_number]
  IN IF ~WithCheck("students", "INSERT", uid, row)
       THEN Outcome("rls", 0, students)
     ELSE IF ~students_unique(students \cup {row})
       THEN Outcome("unique", 0, students)
     ELSE Outcome("ok", 1, students \cup {row})

\* UPDATE students SET id_number = ... WHERE id = ...
students_update(uid, id, id_number) ==
  LET hit == {r \in students : r.id = id /\ RowVisible("students", "UPDATE", uid, r)}
      new == {[r EXCEPT !.id_number = id_number] : r \in hit}
      rel == (students \ hit) \cup new
  IN IF \E r \in new : ~WithCheck("students", "UPDATE", uid, r)
       THEN Outcome("rls", 0, students)
     ELSE IF ~students_unique(rel)
       THEN Outcome("unique", 0, students)
     ELSE Outcome("ok", Cardinality(hit), rel)

\* DELETE FROM students WHERE id = ...
students_delete(uid, id) ==
  LET hit == {r \in students : r.id = id /\ RowVisible("students", "DELETE", uid, r)}
  IN Outcome("ok", Cardinality(hit), students \ hit)

\* ----------------------------------------------------------------- subjects
subjects_insert(uid, name) ==
  LET row == [id |-> FreshId(SubjectIds, subjects), name |-> name]
  IN IF ~WithCheck("subjects", "INSERT", uid, row)
       THEN Outcome("rls", 0, subjects)
     ELSE Outcome("ok", 1, subjects \cup {row})

subjects_update(uid, id, name) ==
  LET hit == {r \in subjects : r.id = id /\ RowVisible("subjects", "UPDATE", uid, r)}
      new == {[r EXCEPT !.name = name] : r \in hit}
  IN IF \E r \in new : ~WithCheck("subjects", "UPDATE", uid, r)
       THEN Outcome("rls", 0, subjects)
     ELSE Outcome("ok", Cardinality(hit), (subjects \ hit) \cup new)

subjects_delete(uid, id) ==
  LET hit == {r \in subjects : r.id = id /\ RowVisible("subjects", "DELETE", uid, r)}
  IN Outcome("ok", Cardinality(hit), subjects \ hit)

\* ON DELETE CASCADE of the student_id and subject_id references: the rows
\* left once those of the deleted students and subjects are gone.  The cascade
\* is the store's referential action; the caller's policies do not filter it.
\* (variant: the reference is declared without ON DELETE CASCADE)
CascadeStudents_none(rel, gone) == rel

CascadeStudents(rel, gone) == {r \in rel : r.student_id \notin {s.id : s \in gone}}

CascadeSubjects(rel, gone) == {r \in rel : r.subject_id \notin {c.id : c \in gone}}

\* REFERENCES public.students(id), REFERENCES public.subjects(id)
\* (variant: subject_id is declared without its REFERENCES clause)
References_students_only(rel) ==
  \A r \in rel : \E s \in students : s.id = r.student_id

References(rel) ==
  \A r \in rel : /\ \E s \in students : s.id = r.student_id
                 /\ \E c \in subjects : c.id = r.subject_id

\* --------------------------------------------------------------- attendance
\* UNIQUE(date, student_id, subject_id)
\* (variant: the constraint is declared on (student_id, subject_id) alone)
attendance_unique_no_date(rel) ==
  \A a, b \in rel :
    (a.student_id = b.student_id /\ a.subject_id = b.subject_id) => a = b

attendance_unique(rel) ==
  \A a, b \in rel :
    (a.date = b.date /\ a.student_id = b.student_id /\ a.subject_id = b.subject_id)
      => a = b

attendance_insert(uid, date, present, student_id, subject_id) ==
  LET row == [id |-> FreshId(AttendanceIds, attendance), date |-> date,
              present |-> present, student_id |-> student_id,
              subject_id |-> subject_id]
      rel == attendance \cup {row}
  IN IF ~WithCheck("attendance", "INSERT", uid, row)
       THEN Outcome("rls", 0, attendance)
     ELSE IF ~attendance_unique(rel)
       THEN Outcome("unique", 0, attendance)
     ELSE IF ~References(rel)
       THEN Outcome("fk", 0, attendance)
     ELSE Outcome("ok", 1, rel)

\* The row of UPDATE attendance SET col = v
AttendanceSet(r, col, v) ==
  [id |-> r.id,
   date |-> IF col = "date" THEN Val(v) ELSE r.date,
   present |-> IF col = "present" THEN Val(v) ELSE r.present,
   student_id |-> IF col = "student_id" THEN Val(v) ELSE r.student_id,
   subject_id |-> IF col = "subject_id" THEN Val(v) ELSE r.subject_id]

\* UPDATE attendance SET col = v WHERE id = ...
attendance_update(uid, id, col, v) ==
  LET hit == {r \in attendance :
                r.id = id /\ RowVisible("attendance", "UPDATE", uid, r)}
      new == {AttendanceSet(r, col, v) : r \in hit}
      rel == (attendance \ hit) \cup new
  IN IF \E r \in new : ~WithCheck("attendance", "UPDATE", uid, r)
       THEN Outcome("rls", 0, attendance)
     ELSE IF ~attendance_unique(rel)
       THEN Outcome("unique", 0, attendance)
     ELSE IF ~References(rel)
       THEN Outcome("fk", 0, attendance)
     ELSE Outcome("ok", Cardinality(hit), rel)

attendance_delete(uid, id) ==
  LET hit == {r \in attendance :
                r.id = id /\ RowVisible("attendance", "DELETE", uid, r)}
  IN Outcome("ok", Cardinality(hit), attendance \ hit)

\* supabase.from("attendance").upsert(records, {onConflict:
\* "date,student_id,subject_id"}): INSERT ... ON CONFLICT (date, student_id,
\* subject_id) DO UPDATE SET every column of the records, one statement.  recs
\* maps the student ids of the records to their present value.
RECURSIVE UpsertAttendanceRows(_, _, _, _, _)
UpsertAttendanceRows(todo, date, subject_id, recs, rel) ==
  IF todo = {} THEN rel
  ELSE LET s == CHOOSE x \in todo : \A y \in todo : x <= y
           old == {r \in rel : r.date = date /\ r.student_id = s
                                  /\ r.subject_id = subject_id}
           id == IF old = {} THEN FreshId(AttendanceIds, rel)
                 ELSE (CHOOSE r \in old : TRUE).id
           row == [id |-> id, date |-> date, present |-> recs[s],
                   student_id |-> s, subject_id |-> subject_id]
       IN UpsertAttendanceRows(todo \ {s}, date, subject_id, recs,
                               (rel \ old) \cup {row})

attendance_upsert(uid, date, subject_id, recs) ==
  LET rel == UpsertAttendanceRows(DOMAIN recs, date, subject_id, recs, attendance)
      mine(r) == r.date = date /\ r.subject_id = subject_id
                   /\ r.student_id \in DOMAIN recs
      old == {r \in attendance : mine(r)}
      new == {r \in rel : mine(r)}
  IN IF \/ \E r \in new : ~WithCheck("attendance", "INSERT", uid, r)
        \/ \E r \in old : ~RowVisible("attendance", "UPDATE", uid, r)
        \/ \E r \in new : r.id \in {o.id : o \in old}
                            /\ ~WithCheck("attendance", "UPDATE", uid, r)
       THEN Outcome("rls", 0, attendance)
     ELSE IF ~References(rel)
       THEN Outcome("fk", 0, attendance)
     ELSE Outcome("ok", Cardinality(new), rel)

\* ------------------------------------------------------------------- grades
\* UNIQUE(student_id, subject_id)
\* (variant: the table is declared without the constraint)
grades_unique_none(rel) == TRUE

grades_unique(rel) ==
  \A a, b \in rel :
    (a.student_id = b.student_id /\ a.subject_id = b.subject_id) => a = b

\* CHECK (partial_score ...), CHECK (exam_score ...)
grades_check(row) == ScoreCheck(row.partial_score) /\ ScoreCheck(row.exam_score)

\* The row the store builds from the values of a statement: the scores cast to
\* DECIMAL(5,2) and the generated average.
GradeRow(id, student_id, subject_id, partial, exam) ==
  [id |-> id, partial_score |-> ToDecimal(partial), exam_score |-> ToDecimal(exam),
   average |-> GeneratedAverage(ToDecimal(partial), ToDecimal(exam)),
   student_id |-> student_id, subject_id |-> subject_id]

\* INSERT INTO grades (student_id, subject_id, partial_score, exam_score
\* [, average]): average is NULL when the statement names no average.
grades_insert(uid, student_id, subject_id, partial, exam, average) ==
  LET row == GradeRow(FreshId(GradeIds, grades), student_id, subject_id, partial, exam)
      rel == grades \cup {row}
  IN IF ~IsNull(average)
       THEN Outcome("generated", 0, grades)
     ELSE IF Overflows(partial) \/ Overflows(exam)
       THEN Outcome("overflow", 0, grades)
     ELSE IF ~WithCheck("grades", "INSERT", uid, row)
       THEN Outcome("rls", 0, grades)
     ELSE IF ~grades_check(row)
       THEN Outcome("check", 0, grades)
     ELSE IF ~grades_unique(rel)
       THEN Outcome("unique", 0, grades)
     ELSE IF ~References(rel)
       THEN Outcome("fk", 0, grades)
     ELSE Outcome("ok", 1, rel)

\* The row of UPDATE grades SET col = v: a score is cast, a reference replaced,
\* and the average generated again from the row's scores.
GradeSet(r, col, v) ==
  LET p == IF col = "partial_score" THEN ToDecimal(v) ELSE r.partial_score
      e == IF col = "exam_score" THEN ToDecimal(v) ELSE r.exam_score
  IN [id |-> r.id, partial_score |-> p, exam_score |-> e,
      average |-> GeneratedAverage(p, e),
      student_id |-> IF col = "student_id" THEN Val(v) ELSE r.student_id,
      subject_id |-> IF col = "subject_id" THEN Val(v) ELSE r.subject_id]

\* UPDATE grades SET col = v WHERE id = ...
grades_update(uid, id, col, v) ==
  LET hit == {r \in grades : r.id = id /\ RowVisible("grades", "UPDATE", uid, r)}
      new == {GradeSet(r, col, v) : r \in hit}
      rel == (grades \ hit) \cup new
  IN IF col = "average"
       THEN Outcome("generated", 0, grades)
     ELSE IF col \in {"partial_score", "exam_score"} /\ Overflows(v)
       THEN Outcome("overflow", 0, grades)
     ELSE IF \E r \in new : ~WithCheck("grades", "UPDATE", uid, r)
       THEN Outcome("rls", 0, grades)
     ELSE IF \E r \in new : ~grades_check(r)
       THEN Outcome("check", 0, grades)
     ELSE IF ~grades_unique(rel)
       THEN Outcome("unique", 0, grades)
     ELSE IF ~References(rel)
       THEN Outcome("fk", 0, grades)
     ELSE Outcome("ok", Cardinality(hit), rel)

grades_delete(uid, id) ==
  LET hit == {r \in grades : r.id = id /\ RowVisible("grades", "DELETE", uid, r)}
  IN Outcome("ok", Cardinality(hit), grades \ hit)


\* supabase.from("grades").upsert(records, {onConflict: "student_id,subject_id"}):
\* INSERT ... ON CONFLICT (student_id, subject_id) DO UPDATE SET every column
\* of the records.  recs maps the student ids of the records to their scores.
\* (variant: ON CONFLICT DO NOTHING, the row already stored is kept)
RECURSIVE UpsertRows_do_nothing(_, _, _, _)
UpsertRows_do_nothing(todo, subject_id, recs, rel) ==
  IF todo = {} THEN rel
  ELSE LET s == CHOOSE x \in todo : \A y \in todo : x <= y
           old == {r \in rel : r.student_id = s /\ r.subject_id = subject_id}
           row == IF old = {}
                    THEN GradeRow(FreshId(GradeIds, rel), s, subject_id,
                                  recs[s].partial, recs[s].exam)
                    ELSE CHOOSE r \in old : TRUE
       IN UpsertRows_do_nothing(todo \ {s}, subject_id, recs, (rel \ old) \cup {row})

RECURSIVE UpsertRows(_, _, _, _)
UpsertRows(todo, subject_id, recs, rel) ==
  IF todo = {} THEN rel
  ELSE LET s == CHOOSE x \in todo : \A y \in todo : x <= y
           old == {r \in rel : r.student_id = s /\ r.subject_id = subject_id}
           id == IF old = {} THEN FreshId(GradeIds, rel) ELSE (CHOOSE r \in old : TRUE).id
           row == GradeRow(id, s, subject_id, recs[s].partial, recs[s].exam)
       IN UpsertRows(todo \ {s}, subject_id, recs, (rel \ old) \cup {row})

\* (variant: without onConflict, so that the conflict target is the primary
\* key and a record of a pair that has a row violates UNIQUE)
grades_upsert_on_primary_key(uid, subject_id, recs) ==
  LET rel == UpsertRows(DOMAIN recs, subject_id, recs, grades)
      old == {r \in grades : r.subject_id = subject_id /\ r.student_id \in DOMAIN recs}
      new == {r \in rel : r.subject_id = subject_id /\ r.student_id \in DOMAIN recs}
  IN IF \E s \in DOMAIN recs : Overflows(recs[s].partial) \/ Overflows(recs[s].exam)
       THEN Outcome("overflow", 0, grades)
     ELSE IF \/ \E r \in new : ~WithCheck("grades", "INSERT", uid, r)
             \/ \E r \in old : ~RowVisible("grades", "UPDATE", uid, r)
             \/ \E r \in new : r.id \in {o.id : o \in old}
                                 /\ ~WithCheck("grades", "UPDATE", uid, r)
       THEN Outcome("rls", 0, grades)
     ELSE IF \E r \in new : ~grades_check(r)
       THEN Outcome("check", 0, grades)
     ELSE IF old # {}
       THEN Outcome("unique", 0, grades)
     ELSE IF ~References(rel)
       THEN Outcome("fk", 0, grades)
     ELSE Outcome("ok", Cardinality(new), rel)

\* (variant: the records are written one statement each, so that those which
\* pass their checks stay when another one is refused)
grades_upsert_each(uid, subject_id, recs) ==
  LET good == {s \in DOMAIN recs :
                 /\ ~Overflows(recs[s].partial) /\ ~Overflows(recs[s].exam)
                 /\ grades_check(GradeRow(0, s, subject_id, recs[s].partial, recs[s].exam))}
      rel == UpsertRows(good, subject_id, recs, grades)
      new == {r \in rel : r.subject_id = subject_id /\ r.student_id \in DOMAIN recs}
  IN IF \E r \in new : ~WithCheck("grades", "INSERT", uid, r)
       THEN Outcome("rls", 0, grades)
     ELSE IF ~References(rel)
       THEN Outcome("fk", 0, grades)
     ELSE IF good # DOMAIN recs
       THEN Outcome("check", 0, rel)
     ELSE Outcome("ok", Cardinality(new), rel)

grades_upsert(uid, subject_id, recs) ==
  LET rel == UpsertRows(DOMAIN recs, subject_id, recs, grades)
      old == {r \in grades : r.subject_id = subject_id /\ r.student_id \in DOMAIN recs}
      new == {r \in rel : r.subject_id = subject_id /\ r.student_id \in DOMAIN recs}
  IN IF \E s \in DOMAIN recs : Overflows(recs[s].partial) \/ Overflows(recs[s].exam)
       THEN Outcome("overflow", 0, grades)
     ELSE IF \/ \E r \in new : ~WithCheck("grades", "INSERT", uid, r)
             \/ \E r \in old : ~RowVisible("grades", "UPDATE", uid, r)
             \/ \E r \in new : r.id \in {o.id : o \in old}
                                 /\ ~WithCheck("grades", "UPDATE", uid, r)
       THEN Outcome("rls", 0, grades)
     ELSE IF \E r \in new : ~grades_check(r)
       THEN Outcome("check", 0, grades)
     ELSE IF ~References(rel)
       THEN Outcome("fk", 0, grades)
     ELSE Outcome("ok", Cardinality(new), rel)

\* ------------------------------------------------------------------ actions
\* One action per statement a signed-in caller sends; uid is auth.uid().
\* A statement that would need more row ids than the model holds is left out.
Authenticated == {a.id : a \in accounts}

Fits(rel) == \A r \in rel : r.id # 0

InsertStudent(uid, id_number) ==
  LET out == students_insert(uid, id_number)
  IN /\ Fits(out.rel)
     /\ students' = out.rel
     /\ op' = Done("students", "INSERT", uid, out)
     /\ UNCHANGED <<accounts, profiles, user_roles, subjects, attendance, grades>>

UpdateStudent(uid, id, id_number) ==
  LET out == students_update(uid, id, id_number)
  IN /\ students' = out.rel
     /\ op' = Done("students", "UPDATE", uid, out)
     /\ UNCHANGED <<accounts, profiles, user_roles, subjects, attendance, grades>>

\* Students.handleDelete: the delete and the cascade it sets off.
DeleteStudent(uid, id) ==
  LET out == students_delete(uid, id)
  IN /\ students' = out.rel
     /\ attendance' = CascadeStudents(attendance, students \ out.rel)
     /\ grades' = CascadeStudents(grades, students \ out.rel)
     /\ op' = [Done("students", "DELETE", uid, out) EXCEPT
                !.cascaded = Cardinality(attendance \ attendance')
                             + Cardinality(grades \ grades')]
     /\ UNCHANGED <<accounts, profiles, user_roles, subjects>>

InsertSubject(uid, name) ==
  LET out == subjects_insert(uid, name)
  IN /\ Fits(out.rel)
     /\ subjects' = out.rel
     /\ op' = Done("subjects", "INSERT", uid, out)
     /\ UNCHANGED <<accounts, profiles, user_roles, students, attendance, grades>>

UpdateSubject(uid, id, name) ==
  LET out == subjects_update(uid, id, name)
  IN /\ subjects' = out.rel
     /\ op' = Done("subjects", "UPDATE", uid, out)
     /\ UNCHANGED <<accounts, profiles, user_roles, students, attendance, grades>>

\* Subjects.handleDelete: the delete and the cascade it sets off.
DeleteSubject(uid, id) ==
  LET out == subjects_delete(uid, id)
  IN /\ subjects' = out.rel
     /\ attendance' = CascadeSubjects(attendance, subjects \ out.rel)
     /\ grades' = CascadeSubjects(grades, subjects \ out.rel)
     /\ op' = [Done("subjects", "DELETE", uid, out) EXCEPT
                !.cascaded = Cardinality(attendance \ attendance')
                             + Cardinality(grades \ grades')]
     /\ UNCHANGED <<accounts, profiles, user_roles, students>>

InsertAttendance(uid, date, present, student_id, subject_id) ==
  LET out == attendance_insert(uid, date, present, student_id, subject_id)
  IN /\ Fits(out.rel)
     /\ attendance' = out.rel
     /\ op' = Done("attendance", "INSERT", uid, out)
     /\ UNCHANGED <<accounts, profiles, user_roles, students, subjects, grades>>

UpdateAttendance(uid, id, col, v) ==
  LET out == attendance_update(uid, id, col, v)
  IN /\ attendance' = out.rel
     /\ op' = Done("attendance", "UPDATE", uid, out)
     /\ UNCHANGED <<accounts, profiles, user_roles, students, subjects, grades>>

DeleteAttendance(uid, id) ==
  LET out == attendance_delete(uid, id)
  IN /\ attendance' = out.rel
     /\ op' = Done("attendance", "DELETE", uid, out)
     /\ UNCHANGED <<accounts, profiles, user_roles, students, subjects, grades>>

InsertGrade(uid, student_id, subject_id, partial, exam, average) ==
  LET out == grades_insert(uid, student_id, subject_id, partial, exam, average)
  IN /\ Fits(out.rel)
     /\ grades' = out.rel
     /\ op' = Done("grades", "INSERT", uid, out)
     /\ UNCHANGED <<accounts, profiles, user_roles, students, subjects, attendance>>

UpdateGrade(uid, id, col, v) ==
  LET out == grades_update(uid, id, col, v)
  IN /\ grades' = out.rel
     /\ op' = Done("grades", "UPDATE", uid, out)
     /\ UNCHANGED <<accounts, profiles, user_roles, students, subjects, attendance>>

DeleteGrade(uid, id) ==
  LET out == grades_delete(uid, id)
  IN /\ grades' = out.rel
     /\ op' = Done("grades", "DELETE", uid, out)
     /\ UNCHANGED <<accounts, profiles, user_roles, students, subjects, attendance>>

UpsertGrades(uid, subject_id, recs) ==
  LET out == grades_upsert(uid, subject_id, recs)
  IN /\ Fits(out.rel)
     /\ grades' = out.rel
     /\ op' = Done("grades", "UPSERT", uid, out)
     /\ UNCHANGED <<accounts, profiles, user_roles, students, subjects, attendance>>

UpsertAttendance(uid, date, subject_id, recs) ==
  LET out == attendance_upsert(uid, date, subject_id, recs)
  IN /\ Fits(out.rel)
     /\ attendance' = out.rel
     /\ op' = Done("attendance", "UPSERT", uid, out)
     /\ UNCHANGED <<accounts, profiles, user_roles, students, subjects, grades>>

\* supabase.from(table).select("*") of one of the four entity tables
Relation(table) ==
  CASE table = "students" -> students
    [] table = "subjects" -> subjects
    [] table = "attendance" -> attendance
    [] table = "grades" -> grades
    [] table = "profiles" -> profiles
    [] table = "user_roles" -> user_roles

Select(uid, table) ==
  /\ op' = Done(table, "SELECT", uid,
                Outcome("ok", Cardinality(Visible(table, Relation(table), uid)), {}))
  /\ UNCHANGED <<accounts, profiles, user_roles, students, subjects, attendance,
                 grades>>


\* ------------------------------------------------------ accounts, profiles
\* Text is a sequence of characters.  A sign-up gives the new row of auth.users
\* an id, an email and the username of its raw_user_meta_data, both nullable;
\* accounts keeps the id of every row of auth.users, the one column that
\* references and policies read.
\* SPLIT_PART(s, d, n): the n-th field of s split at d ('' when there is none).
RECURSIVE SPLIT_PART(_, _, _)
SPLIT_PART(s, d, n) ==
  LET cut == {i \in 1..Len(s) : s[i] = d}
      at == IF cut = {} THEN Len(s) + 1 ELSE CHOOSE i \in cut : \A j \in cut : i <= j
  IN IF n = 1 THEN SubSeq(s, 1, at - 1)
     ELSE IF cut = {} THEN << >>
     ELSE SPLIT_PART(SubSeq(s, at + 1, Len(s)), d, n - 1)

\* COALESCE(a, b) of two nullable values
COALESCE(a, b) == IF IsNull(a) THEN b ELSE a

\* The row handle_new_user inserts for the new account (NEW in the trigger).
\* (variant: the arguments of COALESCE are swapped, the email's part first)
handle_new_user_email_first(new_user) ==
  [id |-> new_user.id,
   username |-> COALESCE(IF IsNull(new_user.email) THEN NULL
                         ELSE {SPLIT_PART(Val(new_user.email), "@", 1)},
                         new_user.username)]

handle_new_user(new_user) ==
  [id |-> new_user.id,
   username |-> COALESCE(new_user.username,
                         IF IsNull(new_user.email) THEN NULL
                         ELSE {SPLIT_PART(Val(new_user.email), "@", 1)})]

\* (variant: username is NOT NULL but not UNIQUE)
profiles_constraint_username_not_unique(rel, accts) ==
  IF \E r \in rel : IsNull(r.username) THEN "not_null"
  ELSE IF \E a, b \in rel : a # b /\ a.id = b.id THEN "unique"
  ELSE IF \E r \in rel : r.id \notin {a.id : a \in accts} THEN "fk"
  ELSE "ok"

\* profiles: id PRIMARY KEY REFERENCES auth.users(id), username UNIQUE NOT NULL
profiles_constraint(rel, accts) ==
  IF \E r \in rel : IsNull(r.username) THEN "not_null"
  ELSE IF \E a, b \in rel : a # b /\ (a.id = b.id \/ a.username = b.username)
    THEN "unique"
  ELSE IF \E r \in rel : r.id \notin {a.id : a \in accts} THEN "fk"
  ELSE "ok"

\* INSERT INTO auth.users with the AFTER INSERT trigger on_auth_user_created:
\* one transaction, so an error of the trigger's insert undoes the account.
\* The result is the pair of tables.
\* (variant: the trigger's error is swallowed and the account kept)
auth_users_insert_no_rollback(new_user) ==
  LET accts == accounts \cup {[id |-> new_user.id]}
      rel == profiles \cup {handle_new_user(new_user)}
      c == profiles_constraint(rel, accts)
  IN IF c # "ok" THEN Outcome("ok", 1, <<accts, profiles>>)
     ELSE Outcome("ok", 1, <<accts, rel>>)

auth_users_insert(new_user) ==
  LET accts == accounts \cup {[id |-> new_user.id]}
      rel == profiles \cup {handle_new_user(new_user)}
      c == profiles_constraint(rel, accts)
  IN IF c # "ok" THEN Outcome(c, 0, <<accounts, profiles>>)
     ELSE Outcome("ok", 1, <<accts, rel>>)

\* UPDATE profiles SET col = v WHERE id = ... (col is "username" or "id")
profiles_update(uid, id, col, v) ==
  LET hit == {r \in profiles : r.id = id /\ RowVisible("profiles", "UPDATE", uid, r)}
      new == {IF col = "id" THEN [r EXCEPT !.id = Val(v)]
              ELSE [r EXCEPT !.username = v] : r \in hit}
      rel == (profiles \ hit) \cup new
      c == profiles_constraint(rel, accounts)
  IN IF \E r \in new : ~WithCheck("profiles", "UPDATE", uid, r)
       THEN Outcome("rls", 0, profiles)
     ELSE IF c # "ok" THEN Outcome(c, 0, profiles)
     ELSE Outcome("ok", Cardinality(hit), rel)

profiles_insert(uid, row) ==
  LET rel == profiles \cup {row}
      c == profiles_constraint(rel, accounts)
  IN IF ~WithCheck("profiles", "INSERT", uid, row) THEN Outcome("rls", 0, profiles)
     ELSE IF c # "ok" THEN Outcome(c, 0, profiles)
     ELSE Outcome("ok", 1, rel)

profiles_delete(uid, id) ==
  LET hit == {r \in profiles : r.id = id /\ RowVisible("profiles", "DELETE", uid, r)}
  IN Outcome("ok", Cardinality(hit), profiles \ hit)

\* --------------------------------------------------------------- user_roles
\* role app_role NOT NULL, user_id REFERENCES auth.users(id), UNIQUE(user_id, role)
\* (variant: the table is declared without UNIQUE(user_id, role))
user_roles_constraint_no_unique(rel) ==
  IF \E r \in rel : r.role \notin app_role THEN "enum"
  ELSE IF \E r \in rel : r.user_id \notin {a.id : a \in accounts} THEN "fk"
  ELSE "ok"

user_roles_constraint(rel) ==
  IF \E r \in rel : r.role \notin app_role THEN "enum"
  ELSE IF \E a, b \in rel : a # b /\ a.user_id = b.user_id /\ a.role = b.role
    THEN "unique"
  ELSE IF \E r \in rel : r.user_id \notin {a.id : a \in accounts} THEN "fk"
  ELSE "ok"

user_roles_insert(uid, user_id, role) ==
  LET row == [id |-> FreshId(RoleIds, user_roles), user_id |-> user_id, role |-> role]
      rel == user_roles \cup {row}
      c == user_roles_constraint(rel)
  IN IF role \notin app_role THEN Outcome("enum", 0, user_roles)
     ELSE IF ~WithCheck("user_roles", "INSERT", uid, row)
       THEN Outcome("rls", 0, user_roles)
     ELSE IF c # "ok" THEN Outcome(c, 0, user_roles)
     ELSE Outcome("ok", 1, rel)

\* UPDATE user_roles SET user_id = ..., role = ... WHERE id = ...
user_roles_update(uid, id, user_id, role) ==
  LET hit == {r \in user_roles :
                r.id = id /\ RowVisible("user_roles", "UPDATE", uid, r)}
      new == {[r EXCEPT !.user_id = user_id, !.role = role] : r \in hit}
      rel == (user_roles \ hit) \cup new
      c == user_roles_constraint(rel)
  IN IF role \notin app_role THEN Outcome("enum", 0, user_roles)
     ELSE IF \E r \in new : ~WithCheck("user_roles", "UPDATE", uid, r)
       THEN Outcome("rls", 0, user_roles)
     ELSE IF c # "ok" THEN Outcome(c, 0, user_roles)
     ELSE Outcome("ok", Cardinality(hit), rel)

user_roles_delete(uid, id) ==
  LET hit == {r \in user_roles :
                r.id = id /\ RowVisible("user_roles", "DELETE", uid, r)}
  IN Outcome("ok", Cardinality(hit), user_roles \ hit)


\* Sign-up: a new row of auth.users and the profile its trigger inserts.
CreateAccount(id, email, username) ==
  LET out == auth_users_insert([id |-> id, email |-> email, username |-> username])
  IN /\ id \notin Authenticated
     /\ accounts' = out.rel[1]
     /\ profiles' = out.rel[2]
     /\ op' = Done("auth.users", "INSERT", 0, out)
     /\ UNCHANGED <<user_roles, students, subjects, attendance, grades>>

\* Removal of an account: ON DELETE CASCADE of profiles.id and user_roles.user_id
DeleteAccount(id) ==
  /\ id \in Authenticated
  /\ accounts' = {a \in accounts : a.id # id}
  /\ profiles' = {r \in profiles : r.id # id}
  /\ user_roles' = {r \in user_roles : r.user_id # id}
  /\ op' = Done("auth.users", "DELETE", 0, Outcome("ok", 1, {}))
  /\ UNCHANGED <<students, subjects, attendance, grades>>

UpdateProfile(uid, id, col, v) ==
  LET out == profiles_update(uid, id, col, v)
  IN /\ profiles' = out.rel
     /\ op' = Done("profiles", "UPDATE", uid, out)
     /\ UNCHANGED <<accounts, user_roles, students, subjects, attendance, grades>>

InsertProfile(uid, id, username) ==
  LET out == profiles_insert(uid, [id |-> id, username |-> username])
  IN /\ profiles' = out.rel
     /\ op' = Done("profiles", "INSERT", uid, out)
     /\ UNCHANGED <<accounts, user_roles, students, subjects, attendance, grades>>

DeleteProfile(uid, id) ==
  LET out == profiles_delete(uid, id)
  IN /\ profiles' = out.rel
     /\ op' = Done("profiles", "DELETE", uid, out)
     /\ UNCHANGED <<accounts, user_roles, students, subjects, attendance, grades>>

InsertRole(uid, user_id, role) ==
  LET out == user_roles_insert(uid, user_id, role)
  IN /\ Fits(out.rel)
     /\ user_roles' = out.rel
     /\ op' = Done("user_roles", "INSERT", uid, out)
     /\ UNCHANGED <<accounts, profiles, students, subjects, attendance, grades>>

UpdateRole(uid, id, user_id, role) ==
  LET out == user_roles_update(uid, id, user_id, role)
  IN /\ user_roles' = out.rel
     /\ op' = Done("user_roles", "UPDATE", uid, out)
     /\ UNCHANGED <<accounts, profiles, students, subjects, attendance, grades>>

DeleteRole(uid, id) ==
  LET out == user_roles_delete(uid, id)
  IN /\ user_roles' = out.rel
     /\ op' = Done("user_roles", "DELETE", uid, out)
     /\ UNCHANGED <<accounts, profiles, students, subjects, attendance, grades>>

\* No page is open, no read is under way and no notification was shown.
NoToast == [title |-> "none", description |-> "none"]

NoPages ==
  /\ studentsPage = << >>
  /\ subjectsPage = << >>
  /\ gradesPage = << >>
  /\ attendancePage = << >>
  /\ net = {}
  /\ toast = [u \in Users |-> NoToast]

\* -------------------------------------------------------------- the pages
\* A write handler runs as one step: the statement it awaits and what it does
\* with the answer.  A read is two steps: the call puts a request in net, and
\* the arrival of its response, in any order with the others, reads the store
\* and sets the page's state; a read can fail on the way (status "network").
\* A step that sends no statement leaves NoOp in op.
Request(uid, page, fn, subject, date) ==
  [to |-> uid, page |-> page, fn |-> fn, subject |-> subject, date |-> date]

Toast(title, description) == [title |-> title, description |-> description]

Show(uid, t) == toast' = [toast EXCEPT ![uid] = t]

\* The outcome of a read as the page sees it: data is null on an error.
ReadOutcome(failed, rows) ==
  IF failed THEN Outcome("network", 0, {}) ELSE Outcome("ok", Cardinality(rows), rows)

\* An extension of the function f by the value v at x.
With(f, x, v) == [y \in DOMAIN f \cup {x} |-> IF y = x THEN v ELSE f[y]]

\* The text of an input field or of a number: the decimal text of a number
\* (in thousandths), the empty text, or no value at all (undefined).
NumberText(n) == [kind |-> "number", val |-> n]
EmptyText == [kind |-> "empty", val |-> 0]
Undefined == [kind |-> "undefined", val |-> 0]

\* Number.prototype.toString of a stored DECIMAL(5,2) (in hundredths)
toString(h) == NumberText(10 * h)

\* parseFloat(text): NaN (here NULL) unless the text is that of a number.
NaN == {}
parseFloat(t) == IF t.kind = "number" THEN {t.val} ELSE NaN

\* x || 0 of a number: 0 for NaN and for 0.
OrZero(x) == IF x = NaN \/ x = {0} THEN 0 ELSE Val(x)

\* The users who have a page open.  A user has one page open at a time (one
\* browser tab), and a page is followed from its mount on.
Browsing ==
  DOMAIN studentsPage \cup DOMAIN subjectsPage \cup DOMAIN gradesPage
    \cup DOMAIN attendancePage

\* ---- Students page
Students_useState ==
  [students |-> {}, isDialogOpen |-> FALSE, editingStudent |-> 0,
   formData |-> [id_number |-> ""]]

\* Mount: useEffect(() => { fetchStudents(); }, [])
Students_mount(uid) ==
  /\ uid \notin Browsing
  /\ studentsPage' = With(studentsPage, uid, Students_useState)
  /\ net' = net \cup {Request(uid, "Students", "fetchStudents", 0, 0)}
  /\ op' = NoOp
  /\ UNCHANGED <<storeVars, subjectsPage, gradesPage, attendancePage, toast>>

\* fetchStudents, from its response on: an error is shown, the rows are kept.
Students_fetchStudents(uid, failed) ==
  LET req == Request(uid, "Students", "fetchStudents", 0, 0)
      out == ReadOutcome(failed, Visible("students", students, uid))
  IN /\ req \in net
     /\ net' = net \ {req}
     /\ IF out.status # "ok"
          THEN /\ Show(uid, Toast("Error", out.status))
               /\ studentsPage' = studentsPage
          ELSE /\ toast' = toast
               /\ studentsPage' = [studentsPage EXCEPT ![uid].students = out.rel]
     /\ op' = Done("students", "SELECT", uid, out)
     /\ UNCHANGED <<storeVars, subjectsPage, gradesPage, attendancePage>>

\* The Add button: it clears the editing target and the form, and as the
\* trigger of the dialog opens it.
Students_add(uid) ==
  /\ uid \in DOMAIN studentsPage
  /\ studentsPage' = [studentsPage EXCEPT ![uid].isDialogOpen = TRUE,
                            ![uid].editingStudent = 0,
                            ![uid].formData = [id_number |-> ""]]
  /\ op' = NoOp
  /\ UNCHANGED <<storeVars, subjectsPage, gradesPage, attendancePage, net, toast>>

\* handleEdit of a row of the list
Students_handleEdit(uid, id) ==
  /\ uid \in DOMAIN studentsPage
  /\ \E r \in studentsPage[uid].students :
       /\ r.id = id
       /\ studentsPage' = [studentsPage EXCEPT ![uid].isDialogOpen = TRUE,
                                 ![uid].editingStudent = id,
                                 ![uid].formData = [id_number |-> r.id_number]]
  /\ op' = NoOp
  /\ UNCHANGED <<storeVars, subjectsPage, gradesPage, attendancePage, net, toast>>

\* Typing into the field of the open dialog
Students_setFormData(uid, v) ==
  /\ uid \in DOMAIN studentsPage
  /\ studentsPage[uid].isDialogOpen
  /\ studentsPage' = [studentsPage EXCEPT ![uid].formData = [id_number |-> v]]
  /\ op' = NoOp
  /\ UNCHANGED <<storeVars, subjectsPage, gradesPage, attendancePage, net, toast>>

\* onOpenChange(false): the dialog is dismissed
Students_setIsDialogOpen(uid) ==
  /\ uid \in DOMAIN studentsPage
  /\ studentsPage[uid].isDialogOpen
  /\ studentsPage' = [studentsPage EXCEPT ![uid].isDialogOpen = FALSE]
  /\ op' = NoOp
  /\ UNCHANGED <<storeVars, subjectsPage, gradesPage, attendancePage, net, toast>>

\* (variant: the dialog is closed and the form emptied after the catch too)
Students_handleSubmit_always_close(uid) ==
  LET page == studentsPage[uid]
      edit == page.editingStudent # 0
      out == IF edit THEN students_update(uid, page.editingStudent, page.formData.id_number)
             ELSE students_insert(uid, page.formData.id_number)
  IN /\ uid \in DOMAIN studentsPage
     /\ page.isDialogOpen
     /\ page.formData.id_number # ""
     /\ Fits(out.rel)
     /\ students' = out.rel
     /\ op' = Done("students", IF edit THEN "UPDATE" ELSE "INSERT", uid, out)
     /\ IF out.status = "ok"
          THEN /\ Show(uid, Toast("Success", IF edit THEN "Student updated successfully"
                                           ELSE "Student added successfully"))
               /\ studentsPage' = [studentsPage EXCEPT ![uid].isDialogOpen = FALSE,
                                         ![uid].editingStudent = 0,
                                         ![uid].formData = [id_number |-> ""]]
               /\ net' = net \cup {Request(uid, "Students", "fetchStudents", 0, 0)}
          ELSE /\ Show(uid, Toast("Error", out.status))
               /\ studentsPage' = [studentsPage EXCEPT ![uid].isDialogOpen = FALSE,
                                         ![uid].editingStudent = 0,
                                         ![uid].formData = [id_number |-> ""]]
               /\ net' = net
     /\ UNCHANGED <<accounts, profiles, user_roles, subjects, attendance, grades,
                    subjectsPage, gradesPage, attendancePage>>

\* handleSubmit of the dialog's form, whose fields are all required
Students_handleSubmit(uid) ==
  LET page == studentsPage[uid]
      edit == page.editingStudent # 0
      out == IF edit THEN students_update(uid, page.editingStudent, page.formData.id_number)
             ELSE students_insert(uid, page.formData.id_number)
  IN /\ uid \in DOMAIN studentsPage
     /\ page.isDialogOpen
     /\ page.formData.id_number # ""
     /\ Fits(out.rel)
     /\ students' = out.rel
     /\ op' = Done("students", IF edit THEN "UPDATE" ELSE "INSERT", uid, out)
     /\ IF out.status = "ok"
          THEN /\ Show(uid, Toast("Success", IF edit THEN "Student updated successfully"
                                           ELSE "Student added successfully"))
               /\ studentsPage' = [studentsPage EXCEPT ![uid].isDialogOpen = FALSE,
                                         ![uid].editingStudent = 0,
                                         ![uid].formData = [id_number |-> ""]]
               /\ net' = net \cup {Request(uid, "Students", "fetchStudents", 0, 0)}
          ELSE /\ Show(uid, Toast("Error", out.status))
               /\ studentsPage' = studentsPage
               /\ net' = net
     /\ UNCHANGED <<accounts, profiles, user_roles, subjects, attendance, grades,
                    subjectsPage, gradesPage, attendancePage>>

\* handleDelete of a row of the list, confirmed
Students_handleDelete(uid, id) ==
  LET out == students_delete(uid, id)
  IN /\ uid \in DOMAIN studentsPage
     /\ \E r \in studentsPage[uid].students : r.id = id
     /\ students' = out.rel
     /\ attendance' = CascadeStudents(attendance, students \ out.rel)
     /\ grades' = CascadeStudents(grades, students \ out.rel)
     /\ op' = [Done("students", "DELETE", uid, out) EXCEPT
                !.cascaded = Cardinality(attendance \ attendance')
                             + Cardinality(grades \ grades')]
     /\ IF out.status = "ok"
          THEN /\ Show(uid, Toast("Success", "Student deleted successfully"))
               /\ net' = net \cup {Request(uid, "Students", "fetchStudents", 0, 0)}
          ELSE /\ Show(uid, Toast("Error", out.status))
               /\ net' = net
     /\ UNCHANGED <<accounts, profiles, user_roles, subjects, studentsPage, subjectsPage, gradesPage, attendancePage>>

\* ---- Subjects page
Subjects_useState ==
  [subjects |-> {}, isDialogOpen |-> FALSE, editingSubject |-> 0,
   formData |-> [name |-> ""]]

\* Mount: useEffect(() => { fetchSubjects(); }, [])
Subjects_mount(uid) ==
  /\ uid \notin Browsing
  /\ subjectsPage' = With(subjectsPage, uid, Subjects_useState)
  /\ net' = net \cup {Request(uid, "Subjects", "fetchSubjects", 0, 0)}
  /\ op' = NoOp
  /\ UNCHANGED <<storeVars, studentsPage, gradesPage, attendancePage, toast>>

\* fetchSubjects, from its response on: an error is shown, the rows are kept.
Subjects_fetchSubjects(uid, failed) ==
  LET req == Request(uid, "Subjects", "fetchSubjects", 0, 0)
      out == ReadOutcome(failed, Visible("subjects", subjects, uid))
  IN /\ req \in net
     /\ net' = net \ {req}
     /\ IF out.status # "ok"
          THEN /\ Show(uid, Toast("Error", out.status))
               /\ subjectsPage' = subjectsPage
          ELSE /\ toast' = toast
               /\ subjectsPage' = [subjectsPage EXCEPT ![uid].subjects = out.rel]
     /\ op' = Done("subjects", "SELECT", uid, out)
     /\ UNCHANGED <<storeVars, studentsPage, gradesPage, attendancePage>>

\* The Add button: it clears the editing target and the form, and as the
\* trigger of the dialog opens it.
Subjects_add(uid) ==
  /\ uid \in DOMAIN subjectsPage
  /\ subjectsPage' = [subjectsPage EXCEPT ![uid].isDialogOpen = TRUE,
                            ![uid].editingSubject = 0,
                            ![uid].formData = [name |-> ""]]
  /\ op' = NoOp
  /\ UNCHANGED <<storeVars, studentsPage, gradesPage, attendancePage, net, toast>>

\* handleEdit of a row of the list
Subjects_handleEdit(uid, id) ==
  /\ uid \in DOMAIN subjectsPage
  /\ \E r \in subjectsPage[uid].subjects :
       /\ r.id = id
       /\ subjectsPage' = [subjectsPage EXCEPT ![uid].isDialogOpen = TRUE,
                                 ![uid].editingSubject = id,
                                 ![uid].formData = [name |-> r.name]]
  /\ op' = NoOp
  /\ UNCHANGED <<storeVars, studentsPage, gradesPage, attendancePage, net, toast>>

\* Typing into the field of the open dialog
Subjects_setFormData(uid, v) ==
  /\ uid \in DOMAIN subjectsPage
  /\ subjectsPage[uid].isDialogOpen
  /\ subjectsPage' = [subjectsPage EXCEPT ![uid].formData = [name |-> v]]
  /\ op' = NoOp
  /\ UNCHANGED <<storeVars, studentsPage, gradesPage, attendancePage, net, toast>>

\* onOpenChange(false): the dialog is dismissed
Subjects_setIsDialogOpen(uid) ==
  /\ uid \in DOMAIN subjectsPage
  /\ subjectsPage[uid].isDialogOpen
  /\ subjectsPage' = [subjectsPage EXCEPT ![uid].isDialogOpen = FALSE]
  /\ op' = NoOp
  /\ UNCHANGED <<storeVars, studentsPage, gradesPage, attendancePage, net, toast>>

\* handleSubmit of the dialog's form, whose fields are all required
Subjects_handleSubmit(uid) ==
  LET page == subjectsPage[uid]
      edit == page.editingSubject # 0
      out == IF edit THEN subjects_update(uid, page.editingSubject, page.formData.name)
             ELSE subjects_insert(uid, page.formData.name)
  IN /\ uid \in DOMAIN subjectsPage
     /\ page.isDialogOpen
     /\ page.formData.name # ""
     /\ Fits(out.rel)
     /\ subjects' = out.rel
     /\ op' = Done("subjects", IF edit THEN "UPDATE" ELSE "INSERT", uid, out)
     /\ IF out.status = "ok"
          THEN /\ Show(uid, Toast("Success", IF edit THEN "Subject updated successfully"
                                           ELSE "Subject added successfully"))
               /\ subjectsPage' = [subjectsPage EXCEPT ![uid].isDialogOpen = FALSE,
                                         ![uid].editingSubject = 0,
                                         ![uid].formData = [name |-> ""]]
               /\ net' = net \cup {Request(uid, "Subjects", "fetchSubjects", 0, 0)}
          ELSE /\ Show(uid, Toast("Error", out.status))
               /\ subjectsPage' = subjectsPage
               /\ net' = net
     /\ UNCHANGED <<accounts, profiles, user_roles, students, attendance, grades,
                    studentsPage, gradesPage, attendancePage>>

\* handleDelete of a row of the list, confirmed
Subjects_handleDelete(uid, id) ==
  LET out == subjects_delete(uid, id)
  IN /\ uid \in DOMAIN subjectsPage
     /\ \E r \in subjectsPage[uid].subjects : r.id = id
     /\ subjects' = out.rel
     /\ attendance' = CascadeSubjects(attendance, subjects \ out.rel)
     /\ grades' = CascadeSubjects(grades, subjects \ out.rel)
     /\ op' = [Done("subjects", "DELETE", uid, out) EXCEPT
                !.cascaded = Cardinality(attendance \ attendance')
                             + Cardinality(grades \ grades')]
     /\ IF out.status = "ok"
          THEN /\ Show(uid, Toast("Success", "Subject deleted successfully"))
               /\ net' = net \cup {Request(uid, "Subjects", "fetchSubjects", 0, 0)}
          ELSE /\ Show(uid, Toast("Error", out.status))
               /\ net' = net
     /\ UNCHANGED <<accounts, profiles, user_roles, students, subjectsPage, studentsPage, gradesPage, attendancePage>>

\* ---- Grades page
\* The state of a page just mounted (existingGrades feeds the average badges
\* of the render only and is left out).
Grades_useState ==
  [students |-> {}, subjects |-> {}, selectedSubject |-> 0, grades |-> << >>]

\* Mount: useEffect(() => { fetchStudents(); fetchSubjects(); }, [])
Grades_mount(uid) ==
  /\ uid \notin Browsing
  /\ gradesPage' = With(gradesPage, uid, Grades_useState)
  /\ net' = net \cup {Request(uid, "Grades", "fetchStudents", 0, 0),
                      Request(uid, "Grades", "fetchSubjects", 0, 0)}
  /\ op' = NoOp
  /\ UNCHANGED <<storeVars, studentsPage, subjectsPage, attendancePage, toast>>

\* fetchStudents, from its response on: setStudents(data || [])
Grades_fetchStudents(uid, failed) ==
  LET req == Request(uid, "Grades", "fetchStudents", 0, 0)
      out == ReadOutcome(failed, Visible("students", students, uid))
  IN /\ req \in net
     /\ net' = net \ {req}
     /\ gradesPage' = [gradesPage EXCEPT ![uid].students = {r.id : r \in out.rel}]
     /\ op' = Done("students", "SELECT", uid, out)
     /\ UNCHANGED <<storeVars, studentsPage, subjectsPage, attendancePage, toast>>

\* fetchSubjects, from its response on: setSubjects(data || [])
Grades_fetchSubjects(uid, failed) ==
  LET req == Request(uid, "Grades", "fetchSubjects", 0, 0)
      out == ReadOutcome(failed, Visible("subjects", subjects, uid))
  IN /\ req \in net
     /\ net' = net \ {req}
     /\ gradesPage' = [gradesPage EXCEPT ![uid].subjects = {r.id : r \in out.rel}]
     /\ op' = Done("subjects", "SELECT", uid, out)
     /\ UNCHANGED <<storeVars, studentsPage, subjectsPage, attendancePage, toast>>

\* The Select of the page: setSelectedSubject(c) for a subject of the loaded
\* list, and the effect on selectedSubject, which calls fetchGrades.
Grades_setSelectedSubject(uid, c) ==
  /\ uid \in DOMAIN gradesPage
  /\ c \in gradesPage[uid].subjects
  /\ c # gradesPage[uid].selectedSubject
  /\ gradesPage' = [gradesPage EXCEPT ![uid].selectedSubject = c]
  /\ net' = net \cup {Request(uid, "Grades", "fetchGrades", c, 0)}
  /\ op' = NoOp
  /\ UNCHANGED <<storeVars, studentsPage, subjectsPage, attendancePage, toast>>

\* The map fetchGrades builds from the rows it was sent.
Grades_gradesMap(rows) ==
  [s \in {r.student_id : r \in rows} |->
     LET r == CHOOSE x \in rows : x.student_id = s
     IN [partial |-> toString(Val(r.partial_score)),
         exam |-> toString(Val(r.exam_score))]]

\* fetchGrades, from its response on.  The subject is the one selected when
\* the read was called.  toString of a null score throws, which ends the
\* function before setGrades.
Grades_fetchGrades(uid, c, failed) ==
  LET req == Request(uid, "Grades", "fetchGrades", c, 0)
      out == ReadOutcome(failed, {r \in Visible("grades", grades, uid) : r.subject_id = c})
      thrown == \E r \in out.rel : IsNull(r.partial_score) \/ IsNull(r.exam_score)
  IN /\ req \in net
     /\ net' = net \ {req}
     /\ gradesPage' = IF thrown THEN gradesPage
                      ELSE [gradesPage EXCEPT ![uid].grades = Grades_gradesMap(out.rel)]
     /\ op' = Done("grades", "SELECT", uid, out)
     /\ UNCHANGED <<storeVars, studentsPage, subjectsPage, attendancePage, toast>>

\* handleGradeChange(studentId, field, value) of a row of the table, which has
\* a row for every student of the loaded list once a subject is selected.
Grades_handleGradeChange(uid, studentId, field, value) ==
  LET g == gradesPage[uid].grades
      was == IF studentId \in DOMAIN g THEN g[studentId]
             ELSE [partial |-> Undefined, exam |-> Undefined]
      now == IF field = "partial" THEN [was EXCEPT !.partial = value]
             ELSE [was EXCEPT !.exam = value]
  IN /\ uid \in DOMAIN gradesPage
     /\ gradesPage[uid].selectedSubject # 0
     /\ studentId \in gradesPage[uid].students
     /\ gradesPage' = [gradesPage EXCEPT ![uid].grades = With(g, studentId, now)]
     /\ op' = NoOp
     /\ UNCHANGED <<storeVars, studentsPage, subjectsPage, attendancePage, net, toast>>

\* (variant: without "|| 0", a field that is not a number is sent as null)
Grades_records_nan_as_null(g) ==
  [s \in DOMAIN g |-> [partial |-> parseFloat(g[s].partial),
                       exam |-> parseFloat(g[s].exam)]]

\* The records handleSave builds from the grades map
Grades_records(g) ==
  [s \in DOMAIN g |-> [partial |-> {OrZero(parseFloat(g[s].partial))},
                       exam |-> {OrZero(parseFloat(g[s].exam))}]]

\* handleSave: the Save button is rendered once a subject is selected.
Grades_handleSave(uid) ==
  LET page == gradesPage[uid]
      out == grades_upsert(uid, page.selectedSubject, Grades_records(page.grades))
  IN /\ uid \in DOMAIN gradesPage
     /\ page.selectedSubject # 0
     /\ Fits(out.rel)
     /\ grades' = out.rel
     /\ op' = Done("grades", "UPSERT", uid, out)
     /\ IF out.status = "ok"
          THEN /\ Show(uid, Toast("Success", "Grades saved successfully"))
               /\ net' = net \cup {Request(uid, "Grades", "fetchGrades",
                                           page.selectedSubject, 0)}
          ELSE /\ Show(uid, Toast("Error", out.status))
               /\ net' = net
     /\ UNCHANGED <<accounts, profiles, user_roles, students, subjects, attendance,
                    studentsPage, subjectsPage, gradesPage, attendancePage>>

\* ---- Attendance page
\* new Date() of the mount: the first date of the model.
Today == 1

Attendance_useState ==
  [students |-> {}, subjects |-> {}, selectedSubject |-> 0, selectedDate |-> Today,
   attendance |-> << >>]

\* Mount: useEffect(() => { fetchStudents(); fetchSubjects(); }, [])
Attendance_mount(uid) ==
  /\ uid \notin Browsing
  /\ attendancePage' = With(attendancePage, uid, Attendance_useState)
  /\ net' = net \cup {Request(uid, "Attendance", "fetchStudents", 0, 0),
                      Request(uid, "Attendance", "fetchSubjects", 0, 0)}
  /\ op' = NoOp
  /\ UNCHANGED <<storeVars, studentsPage, subjectsPage, gradesPage, toast>>

Attendance_fetchStudents(uid, failed) ==
  LET req == Request(uid, "Attendance", "fetchStudents", 0, 0)
      out == ReadOutcome(failed, Visible("students", students, uid))
  IN /\ req \in net
     /\ net' = net \ {req}
     /\ attendancePage' =
          [attendancePage EXCEPT ![uid].students = {r.id : r \in out.rel}]
     /\ op' = Done("students", "SELECT", uid, out)
     /\ UNCHANGED <<storeVars, studentsPage, subjectsPage, gradesPage, toast>>

Attendance_fetchSubjects(uid, failed) ==
  LET req == Request(uid, "Attendance", "fetchSubjects", 0, 0)
      out == ReadOutcome(failed, Visible("subjects", subjects, uid))
  IN /\ req \in net
     /\ net' = net \ {req}
     /\ attendancePage' =
          [attendancePage EXCEPT ![uid].subjects = {r.id : r \in out.rel}]
     /\ op' = Done("subjects", "SELECT", uid, out)
     /\ UNCHANGED <<storeVars, studentsPage, subjectsPage, gradesPage, toast>>

\* setSelectedSubject(c) and the effect on [selectedSubject, selectedDate]
Attendance_setSelectedSubject(uid, c) ==
  /\ uid \in DOMAIN attendancePage
  /\ c \in attendancePage[uid].subjects
  /\ c # attendancePage[uid].selectedSubject
  /\ attendancePage' = [attendancePage EXCEPT ![uid].selectedSubject = c]
  /\ net' = net \cup {Request(uid, "Attendance", "fetchAttendance", c,
                              attendancePage[uid].selectedDate)}
  /\ op' = NoOp
  /\ UNCHANGED <<storeVars, studentsPage, subjectsPage, gradesPage, toast>>

\* setSelectedDate(d) of the calendar and the same effect, which reads only
\* when a subject is selected.
Attendance_setSelectedDate(uid, d) ==
  /\ uid \in DOMAIN attendancePage
  /\ d # attendancePage[uid].selectedDate
  /\ attendancePage' = [attendancePage EXCEPT ![uid].selectedDate = d]
  /\ net' = IF attendancePage[uid].selectedSubject = 0 THEN net
            ELSE net \cup {Request(uid, "Attendance", "fetchAttendance",
                                   attendancePage[uid].selectedSubject, d)}
  /\ op' = NoOp
  /\ UNCHANGED <<storeVars, studentsPage, subjectsPage, gradesPage, toast>>

\* The map fetchAttendance builds from the rows it was sent.
Attendance_attendanceMap(rows) ==
  [s \in {r.student_id : r \in rows} |->
     (CHOOSE x \in rows : x.student_id = s).present]

\* fetchAttendance, from its response on, for the subject and date selected
\* when the read was called.
Attendance_fetchAttendance(uid, c, d, failed) ==
  LET req == Request(uid, "Attendance", "fetchAttendance", c, d)
      out == ReadOutcome(failed, {r \in Visible("attendance", attendance, uid) :
                                    r.subject_id = c /\ r.date = d})
  IN /\ req \in net
     /\ net' = net \ {req}
     /\ attendancePage' =
          [attendancePage EXCEPT ![uid].attendance = Attendance_attendanceMap(out.rel)]
     /\ op' = Done("attendance", "SELECT", uid, out)
     /\ UNCHANGED <<storeVars, studentsPage, subjectsPage, gradesPage, toast>>

\* handleAttendanceChange(studentId, present) of a row of the table
Attendance_handleAttendanceChange(uid, studentId, present) ==
  /\ uid \in DOMAIN attendancePage
  /\ attendancePage[uid].selectedSubject # 0
  /\ studentId \in attendancePage[uid].students
  /\ attendancePage' =
       [attendancePage EXCEPT
          ![uid].attendance = With(attendancePage[uid].attendance, studentId, present)]
  /\ op' = NoOp
  /\ UNCHANGED <<storeVars, studentsPage, subjectsPage, gradesPage, net, toast>>

\* (variant: records are built from the entries of the attendance map only)
Attendance_records_marked_only(page) ==
  [s \in page.students \cap DOMAIN page.attendance |-> page.attendance[s]]

\* The records handleSave builds: one for every student of the loaded list,
\* present: attendance[student.id] || false
Attendance_records(page) ==
  [s \in page.students |->
     IF s \in DOMAIN page.attendance THEN page.attendance[s] ELSE FALSE]

\* handleSave: the Save button is rendered once a subject is selected.  No
\* read follows the upsert.
Attendance_handleSave(uid) ==
  LET page == attendancePage[uid]
      out == attendance_upsert(uid, page.selectedDate, page.selectedSubject,
                               Attendance_records(page))
  IN /\ uid \in DOMAIN attendancePage
     /\ page.selectedSubject # 0
     /\ Fits(out.rel)
     /\ attendance' = out.rel
     /\ op' = Done("attendance", "UPSERT", uid, out)
     /\ IF out.status = "ok"
          THEN Show(uid, Toast("Success", "Attendance saved successfully"))
          ELSE Show(uid, Toast("Error", out.status))
     /\ UNCHANGED <<accounts, profiles, user_roles, students, subjects, grades,
                    studentsPage, subjectsPage, gradesPage, attendancePage, net>>

\* ------------------------------------------------------------------ inputs
Letters == <<"a", "b", "c", "d">>

\* The account the store holds for user u before the run starts, signed up as
\* <letter>@x without a metadata username; its profile is the trigger's.
SeedAccount(u) ==
  [id |-> u, email |-> {<<Letters[u], "@", "x">>}, username |-> NULL]

SeedAccounts == {SeedAccount(u) : u \in Users}

AccountRows(seed) == {[id |-> a.id] : a \in seed}

\* Role assignments the owner of the database made before the run starts.
RoleSeeds ==
  { {[id |-> 1, user_id |-> 1, role |-> "admin"]},
    {[id |-> 1, user_id |-> 1, role |-> "teacher"],
     [id |-> 2, user_id |-> 2, role |-> "student"]} }

Emails == {NULL, {<<"a", "@", "y">>}, {<<"b", "@", "x">>}, {<<"b", "@", "y", "@", "z">>}}
AccountSeeds ==
  { {},
    {[id |-> 1, user_id |-> 1, role |-> "admin"]},
    {[id |-> 1, user_id |-> 1, role |-> "teacher"]} }
Usernames == {NULL, {<<"a">>}, {<<"z">>}}
RoleInputs == app_role \cup {"guest"}

\* Scores as clients send them, in thousandths.  The store specification
\* uses 80 and 90; the grades specification sends NULL, -0.01, 80.01 and
\* 100.004 as partial score, NULL, 90, 100.004 and 100.01 as exam score, and
\* in updates also 80 and 1000.
CoreScores == {{80000}, {90000}}
PartialInputs == {NULL, {-10}, {80010}, {100004}}
ExamInputs == {NULL, {90000}, {100004}, {100010}}
ScoreUpdates == {{80000}, {1000000}}

\* The records of an upsert: for some of the students, a pair of scores.
ScorePairs ==
  { [partial |-> {80000}, exam |-> {90000}],
    [partial |-> {80010}, exam |-> {100010}],
    [partial |-> {0}, exam |-> {1000000}] }

Records == UNION {[D -> ScorePairs] : D \in SUBSET StudentIds}

\* ------------------------------------------------- specification: the store
\* The four entity tables under every kind of statement of two signed-in
\* callers, one of them without the admin or teacher role; subjects, attendance
\* and grades hold at most MaxStoreRows rows each.
Init ==
  /\ accounts = AccountRows(SeedAccounts)
  /\ profiles = {handle_new_user(a) : a \in SeedAccounts}
  /\ user_roles \in RoleSeeds
  /\ students = {}
  /\ subjects = {}
  /\ attendance = {}
  /\ grades = {}
  /\ op = NoOp
  /\ NoPages

Next ==
  /\ UNCHANGED pageVars
  /\ \E uid \in Authenticated :
       \/ \E n \in IdNumbers : InsertStudent(uid, n)
       \/ \E id \in StudentIds, n \in IdNumbers : UpdateStudent(uid, id, n)
       \/ \E id \in StudentIds : DeleteStudent(uid, id)
       \/ \E n \in SubjectNames :
            /\ InsertSubject(uid, n)
            /\ Cardinality(subjects') <= MaxStoreRows
       \/ \E id \in SubjectIds, n \in SubjectNames : UpdateSubject(uid, id, n)
       \/ \E id \in SubjectIds : DeleteSubject(uid, id)
       \/ \E b \in BOOLEAN, s \in StudentIds, c \in SubjectIds :
            /\ InsertAttendance(uid, 1, b, s, c)
            /\ Cardinality(attendance') <= MaxStoreRows
       \/ \E id \in AttendanceIds, b \in BOOLEAN : UpdateAttendance(uid, id, "present", {b})
       \/ \E id \in AttendanceIds : DeleteAttendance(uid, id)
       \/ \E s \in StudentIds, c \in SubjectIds :
            /\ InsertGrade(uid, s, c, {80000}, {90000}, NULL)
            /\ Cardinality(grades') <= MaxStoreRows
       \/ \E id \in GradeIds, p \in CoreScores : UpdateGrade(uid, id, "partial_score", p)
       \/ \E id \in GradeIds : DeleteGrade(uid, id)
       \/ \E t \in {"students", "subjects", "attendance", "grades"} : Select(uid, t)

Spec == Init /\ [][Next]_vars

\* ----------------------------------------------- specification: the cascade
\* Inserts and deletes only, so that students and subjects with several
\* dependent rows are deleted.
NextCascade ==
  /\ UNCHANGED pageVars
  /\ \E uid \in Authenticated :
       \/ \E n \in IdNumbers : InsertStudent(uid, n)
       \/ \E id \in StudentIds : DeleteStudent(uid, id)
       \/ InsertSubject(uid, "Math")
       \/ \E id \in SubjectIds : DeleteSubject(uid, id)
       \/ \E s \in StudentIds, c \in SubjectIds : InsertAttendance(uid, 1, TRUE, s, c)
       \/ \E s \in StudentIds, c \in SubjectIds :
            InsertGrade(uid, s, c, {80000}, {90000}, NULL)

SpecCascade == Init /\ [][NextCascade]_vars


\* ------------------------------------------------ specification: grades
\* Two students and one subject exist, and a teacher sends every kind of
\* grade statement.
InitGrades ==
  /\ accounts = AccountRows({SeedAccount(1)})
  /\ profiles = {handle_new_user(SeedAccount(1))}
  /\ user_roles = {[id |-> 1, user_id |-> 1, role |-> "teacher"]}
  /\ students = {[id |-> 1, id_number |-> "A-1"], [id |-> 2, id_number |-> "A-2"]}
  /\ subjects = {[id |-> 1, name |-> "Math"]}
  /\ attendance = {}
  /\ grades = {}
  /\ op = NoOp
  /\ NoPages

NextGrades ==
  /\ UNCHANGED pageVars
  /\ \E uid \in Authenticated :
       \/ \E s \in StudentIds, c \in SubjectIds, p \in PartialInputs, e \in ExamInputs :
            InsertGrade(uid, s, c, p, e, NULL)
       \/ \E s \in StudentIds : InsertGrade(uid, s, 1, {80000}, {90000}, {8500})
       \/ \E id \in GradeIds, v \in PartialInputs \cup ScoreUpdates :
            UpdateGrade(uid, id, "partial_score", v)
       \/ \E id \in GradeIds, v \in ExamInputs \cup ScoreUpdates :
            UpdateGrade(uid, id, "exam_score", v)
       \/ \E id \in GradeIds, s \in StudentIds : UpdateGrade(uid, id, "student_id", {s})
       \/ \E id \in GradeIds, c \in SubjectIds : UpdateGrade(uid, id, "subject_id", {c})
       \/ \E id \in GradeIds : UpdateGrade(uid, id, "average", {8500})
       \/ \E id \in GradeIds : DeleteGrade(uid, id)
       \/ \E c \in SubjectIds, recs \in Records : UpsertGrades(uid, c, recs)
       \/ Select(uid, "grades")

SpecGrades == InitGrades /\ [][NextGrades]_vars

\* -------------------------------------------- specification: attendance
\* Two students and one subject exist, and two signed-in callers send every
\* kind of attendance statement.
InitAttendance ==
  /\ accounts = AccountRows(SeedAccounts)
  /\ profiles = {handle_new_user(a) : a \in SeedAccounts}
  /\ user_roles \in RoleSeeds
  /\ students = {[id |-> 1, id_number |-> "A-1"], [id |-> 2, id_number |-> "A-2"]}
  /\ subjects = {[id |-> 1, name |-> "Math"]}
  /\ attendance = {}
  /\ grades = {}
  /\ op = NoOp
  /\ NoPages

NextAttendance ==
  /\ UNCHANGED pageVars
  /\ \E uid \in Authenticated :
       \/ \E d \in Dates, b \in BOOLEAN, s \in StudentIds, c \in SubjectIds :
            InsertAttendance(uid, d, b, s, c)
       \/ \E id \in AttendanceIds, d \in Dates : UpdateAttendance(uid, id, "date", {d})
       \/ \E id \in AttendanceIds, b \in BOOLEAN : UpdateAttendance(uid, id, "present", {b})
       \/ \E id \in AttendanceIds, s \in StudentIds :
            UpdateAttendance(uid, id, "student_id", {s})
       \/ \E id \in AttendanceIds, c \in SubjectIds :
            UpdateAttendance(uid, id, "subject_id", {c})
       \/ \E id \in AttendanceIds : DeleteAttendance(uid, id)
       \/ Select(uid, "attendance")

SpecAttendance == InitAttendance /\ [][NextAttendance]_vars

\* ---------------------------------------------- specification: accounts
\* Sign-ups and account removals, and every kind of statement on profiles and
\* user_roles by the signed-in callers.  One account exists at the start.
InitAccounts ==
  /\ accounts = AccountRows({SeedAccount(1)})
  /\ profiles = {handle_new_user(SeedAccount(1))}
  /\ user_roles \in AccountSeeds
  /\ students = {}
  /\ subjects = {}
  /\ attendance = {}
  /\ grades = {}
  /\ op = NoOp
  /\ NoPages

NextAccounts ==
  /\ UNCHANGED pageVars
  /\ \/ \E id \in Users, email \in Emails, username \in Usernames :
          CreateAccount(id, email, username)
     \/ \E id \in Users : DeleteAccount(id)
     \/ \E uid \in Authenticated :
          \/ \E id \in Users, v \in Usernames : UpdateProfile(uid, id, "username", v)
          \/ \E id \in Users, i \in Users : UpdateProfile(uid, id, "id", {i})
          \/ \E id \in Users, v \in Usernames : InsertProfile(uid, id, v)
          \/ \E id \in Users : DeleteProfile(uid, id)
          \/ \E u \in Users, role \in RoleInputs : InsertRole(uid, u, role)
          \/ \E id \in RoleIds, u \in Users, role \in RoleInputs :
               UpdateRole(uid, id, u, role)
          \/ \E id \in RoleIds : DeleteRole(uid, id)
          \/ \E t \in {"profiles", "user_roles"} : Select(uid, t)

SpecAccounts == InitAccounts /\ [][NextAccounts]_vars

\* ---------------------------------------------- specification: no roles
\* The store holds a student, a subject, an attendance row and a grade row
\* but no account and no role assignment.  Accounts sign up, and every
\* signed-in caller sends every kind of write to user_roles and to the four
\* entity tables.
StoredStudents == {[id |-> 1, id_number |-> "A-1"]}
StoredSubjects == {[id |-> 1, name |-> "Math"]}
StoredAttendance ==
  {[id |-> 1, date |-> 1, present |-> TRUE, student_id |-> 1, subject_id |-> 1]}
StoredGrades == {GradeRow(1, 1, 1, {80000}, {90000})}

InitNoRoles ==
  /\ accounts = {}
  /\ profiles = {}
  /\ user_roles = {}
  /\ students = StoredStudents
  /\ subjects = StoredSubjects
  /\ attendance = StoredAttendance
  /\ grades = StoredGrades
  /\ op = NoOp
  /\ NoPages

NextNoRoles ==
  /\ UNCHANGED pageVars
  /\ \/ \E id \in Users, email \in Emails, username \in Usernames :
          CreateAccount(id, email, username)
     \/ \E uid \in Authenticated :
          \/ \E u \in Users, role \in app_role : InsertRole(uid, u, role)
          \/ \E id \in RoleIds, u \in Users, role \in app_role :
               UpdateRole(uid, id, u, role)
          \/ \E id \in RoleIds : DeleteRole(uid, id)
          \/ \E n \in IdNumbers : InsertStudent(uid, n)
          \/ \E id \in StudentIds, n \in IdNumbers : UpdateStudent(uid, id, n)
          \/ \E id \in StudentIds : DeleteStudent(uid, id)
          \/ \E n \in SubjectNames : InsertSubject(uid, n)
          \/ \E id \in SubjectIds, n \in SubjectNames : UpdateSubject(uid, id, n)
          \/ \E id \in SubjectIds : DeleteSubject(uid, id)
          \/ \E b \in BOOLEAN, s \in StudentIds, c \in SubjectIds :
               InsertAttendance(uid, 2, b, s, c)
          \/ \E id \in AttendanceIds, b \in BOOLEAN :
               UpdateAttendance(uid, id, "present", {b})
          \/ \E id \in AttendanceIds : DeleteAttendance(uid, id)
          \/ \E c \in SubjectIds, b \in BOOLEAN :
               UpsertAttendance(uid, 1, c, [x \in {1} |-> b])
          \/ \E s \in StudentIds, c \in SubjectIds :
               InsertGrade(uid, s, c, {80000}, {90000}, NULL)
          \/ \E id \in GradeIds, v \in CoreScores : UpdateGrade(uid, id, "partial_score", v)
          \/ \E id \in GradeIds : DeleteGrade(uid, id)
          \/ \E c \in SubjectIds :
               UpsertGrades(uid, c, [x \in {1} |-> [partial |-> {70000}, exam |-> {60000}]])

SpecNoRoles == InitNoRoles /\ [][NextNoRoles]_vars

\* ------------------------------------------------- specification: saves
\* Two students and one subject exist.  User 1, a teacher or a student, opens
\* the Grades page or the Attendance page, selects, edits and saves, while
\* user 2, an admin, deletes students.  Any read of a page may fail.
SaveSeeds ==
  { {[id |-> 1, user_id |-> 1, role |-> "teacher"],
     [id |-> 2, user_id |-> 2, role |-> "admin"]},
    {[id |-> 1, user_id |-> 1, role |-> "student"],
     [id |-> 2, user_id |-> 2, role |-> "admin"]} }

\* What the user types into a score field: 80, 101 and nothing (the field
\* cleared) as partial score, 90 as exam score.
PartialTexts == {NumberText(80000), NumberText(101000), EmptyText}
ExamTexts == {NumberText(90000)}

InitSaves ==
  /\ accounts = AccountRows(SeedAccounts)
  /\ profiles = {handle_new_user(a) : a \in SeedAccounts}
  /\ user_roles \in SaveSeeds
  /\ students = {[id |-> 1, id_number |-> "A-1"], [id |-> 2, id_number |-> "A-2"]}
  /\ subjects = {[id |-> 1, name |-> "Math"]}
  /\ attendance = {}
  /\ grades = {}
  /\ op = NoOp
  /\ NoPages

NextSaves ==
  \/ Grades_mount(1)
  \/ \E failed \in BOOLEAN : Grades_fetchStudents(1, failed)
  \/ \E failed \in BOOLEAN : Grades_fetchSubjects(1, failed)
  \/ \E c \in SubjectIds : Grades_setSelectedSubject(1, c)
  \/ \E c \in SubjectIds, failed \in BOOLEAN : Grades_fetchGrades(1, c, failed)
  \/ \E s \in StudentIds, v \in PartialTexts : Grades_handleGradeChange(1, s, "partial", v)
  \/ \E s \in StudentIds, v \in ExamTexts : Grades_handleGradeChange(1, s, "exam", v)
  \/ Grades_handleSave(1)
  \/ Attendance_mount(1)
  \/ \E failed \in BOOLEAN : Attendance_fetchStudents(1, failed)
  \/ \E failed \in BOOLEAN : Attendance_fetchSubjects(1, failed)
  \/ \E c \in SubjectIds : Attendance_setSelectedSubject(1, c)
  \/ \E d \in Dates : Attendance_setSelectedDate(1, d)
  \/ \E c \in SubjectIds, d \in Dates, failed \in BOOLEAN :
       Attendance_fetchAttendance(1, c, d, failed)
  \/ \E s \in StudentIds, b \in BOOLEAN : Attendance_handleAttendanceChange(1, s, b)
  \/ Attendance_handleSave(1)
  \/ \E id \in StudentIds : DeleteStudent(2, id) /\ UNCHANGED pageVars

SpecSaves == InitSaves /\ [][NextSaves]_vars

\* ------------------------------------------------- specification: race
\* One student and one subject exist.  User 1, a teacher, and user 2, an
\* admin, both have the Grades page open, load, type scores for the same
\* student and save, in any interleaving.
RaceTexts == {NumberText(80000), NumberText(60000)}

InitRace ==
  /\ accounts = AccountRows(SeedAccounts)
  /\ profiles = {handle_new_user(a) : a \in SeedAccounts}
  /\ user_roles = {[id |-> 1, user_id |-> 1, role |-> "teacher"],
                   [id |-> 2, user_id |-> 2, role |-> "admin"]}
  /\ students = {[id |-> 1, id_number |-> "A-1"]}
  /\ subjects = {[id |-> 1, name |-> "Math"]}
  /\ attendance = {}
  /\ grades = {}
  /\ op = NoOp
  /\ NoPages

NextRace ==
  \E uid \in {1, 2} :
    \/ Grades_mount(uid)
    \/ Grades_fetchStudents(uid, FALSE)
    \/ Grades_fetchSubjects(uid, FALSE)
    \/ Grades_setSelectedSubject(uid, 1)
    \/ Grades_fetchGrades(uid, 1, FALSE)
    \/ \E v \in RaceTexts : Grades_handleGradeChange(uid, 1, "partial", v)
    \/ \E v \in ExamTexts : Grades_handleGradeChange(uid, 1, "exam", v)
    \/ Grades_handleSave(uid)

SpecRace == InitRace /\ [][NextRace]_vars

\* -------------------------------------------- specification: selections
\* One student and two subjects exist, and the student has a grade row, 80
\* and 90, under subject 1 only.  User 1, a teacher, opens the Grades page,
\* selects one subject after the other, types 60 as partial score and saves;
\* the responses of the reads arrive in any order.
TypedTexts == {NumberText(60000)}

InitSelections ==
  /\ accounts = AccountRows(SeedAccounts)
  /\ profiles = {handle_new_user(a) : a \in SeedAccounts}
  /\ user_roles = {[id |-> 1, user_id |-> 1, role |-> "teacher"]}
  /\ students = StoredStudents
  /\ subjects = {[id |-> 1, name |-> "Math"], [id |-> 2, name |-> "Art"]}
  /\ attendance = {}
  /\ grades = StoredGrades
  /\ op = NoOp
  /\ NoPages

NextSelections ==
  \/ Grades_mount(1)
  \/ Grades_fetchStudents(1, FALSE)
  \/ Grades_fetchSubjects(1, FALSE)
  \/ \E c \in SubjectIds : Grades_setSelectedSubject(1, c)
  \/ \E c \in SubjectIds : Grades_fetchGrades(1, c, FALSE)
  \/ \E v \in TypedTexts : Grades_handleGradeChange(1, 1, "partial", v)
  \/ Grades_handleSave(1)

SpecSelections == InitSelections /\ [][NextSelections]_vars

\* ------------------------------------------------- specification: dates
\* One student and two subjects exist, and the student is marked present on
\* date 1 under subject 1; no other attendance row exists and none is
\* written.  User 1, a teacher, opens the Attendance page and selects subjects
\* and dates; the responses of the reads arrive in any order.
InitDates ==
  /\ accounts = AccountRows(SeedAccounts)
  /\ profiles = {handle_new_user(a) : a \in SeedAccounts}
  /\ user_roles = {[id |-> 1, user_id |-> 1, role |-> "teacher"]}
  /\ students = StoredStudents
  /\ subjects = {[id |-> 1, name |-> "Math"], [id |-> 2, name |-> "Art"]}
  /\ attendance = StoredAttendance
  /\ grades = {}
  /\ op = NoOp
  /\ NoPages

NextDates ==
  \/ Attendance_mount(1)
  \/ Attendance_fetchStudents(1, FALSE)
  \/ Attendance_fetchSubjects(1, FALSE)
  \/ \E c \in SubjectIds : Attendance_setSelectedSubject(1, c)
  \/ \E d \in Dates : Attendance_setSelectedDate(1, d)
  \/ \E c \in SubjectIds, d \in Dates : Attendance_fetchAttendance(1, c, d, FALSE)

SpecDates == InitDates /\ [][NextDates]_vars

\* ------------------------------------------------- specification: forms
\* One student and one subject exist.  User 1, a teacher or a student, opens
\* the Students page or the Subjects page and adds, edits and deletes, while
\* user 2, an admin, deletes students.
InitForms ==
  /\ accounts = AccountRows(SeedAccounts)
  /\ profiles = {handle_new_user(a) : a \in SeedAccounts}
  /\ user_roles \in SaveSeeds
  /\ students = {[id |-> 1, id_number |-> "A-1"]}
  /\ subjects = {[id |-> 1, name |-> "Math"]}
  /\ attendance = {}
  /\ grades = {}
  /\ op = NoOp
  /\ NoPages

NextForms ==
  \/ Students_mount(1)
  \/ \E failed \in BOOLEAN : Students_fetchStudents(1, failed)
  \/ Students_add(1)
  \/ \E id \in StudentIds : Students_handleEdit(1, id)
  \/ \E n \in IdNumbers : Students_setFormData(1, n)
  \/ Students_setIsDialogOpen(1)
  \/ Students_handleSubmit(1)
  \/ \E id \in StudentIds : Students_handleDelete(1, id)
  \/ Subjects_mount(1)
  \/ \E failed \in BOOLEAN : Subjects_fetchSubjects(1, failed)
  \/ Subjects_add(1)
  \/ \E id \in SubjectIds : Subjects_handleEdit(1, id)
  \/ \E n \in SubjectNames : Subjects_setFormData(1, n)
  \/ Subjects_setIsDialogOpen(1)
  \/ Subjects_handleSubmit(1)
  \/ \E id \in SubjectIds : Subjects_handleDelete(1, id)
  \/ \E id \in StudentIds : DeleteStudent(2, id) /\ UNCHANGED pageVars

SpecForms == InitForms /\ [][NextForms]_vars

\* -------------------------------------------- specification: references
\* An admin inserts and deletes students and subjects and sends every kind of
\* statement that sets the references of an attendance or grade row.
InitReferences ==
  /\ accounts = AccountRows({SeedAccount(1)})
  /\ profiles = {handle_new_user(SeedAccount(1))}
  /\ user_roles = {[id |-> 1, user_id |-> 1, role |-> "admin"]}
  /\ students = {}
  /\ subjects = {}
  /\ attendance = {}
  /\ grades = {}
  /\ op = NoOp
  /\ NoPages

PlainScores == [partial |-> {80000}, exam |-> {90000}]

NextReferences ==
  /\ UNCHANGED pageVars
  /\ \E uid \in Authenticated :
       \/ \E n \in IdNumbers : InsertStudent(uid, n)
       \/ \E id \in StudentIds : DeleteStudent(uid, id)
       \/ InsertSubject(uid, "Math")
       \/ \E id \in SubjectIds : DeleteSubject(uid, id)
       \/ \E s \in StudentIds, c \in SubjectIds : InsertAttendance(uid, 1, TRUE, s, c)
       \/ \E id \in AttendanceIds, s \in StudentIds :
            UpdateAttendance(uid, id, "student_id", {s})
       \/ \E id \in AttendanceIds, c \in SubjectIds :
            UpdateAttendance(uid, id, "subject_id", {c})
       \/ \E c \in SubjectIds, D \in SUBSET StudentIds :
            UpsertAttendance(uid, 1, c, [s \in D |-> TRUE])
       \/ \E s \in StudentIds, c \in SubjectIds :
            InsertGrade(uid, s, c, {80000}, {90000}, NULL)
       \/ \E id \in GradeIds, s \in StudentIds : UpdateGrade(uid, id, "student_id", {s})
       \/ \E id \in GradeIds, c \in SubjectIds : UpdateGrade(uid, id, "subject_id", {c})
       \/ \E c \in SubjectIds, D \in SUBSET StudentIds :
            UpsertGrades(uid, c, [s \in D |-> PlainScores])

SpecReferences == InitReferences /\ [][NextReferences]_vars

\* =================================================================== claims
EntityTables == {"students", "subjects", "attendance", "grades"}
Writes == {"INSERT", "UPDATE", "DELETE", "UPSERT"}

\* The caller holds the admin or the teacher role.
Privileged(uid) ==
  \E r \in user_roles : r.user_id = uid /\ r.role \in {"admin", "teacher"}

RolesOf(uid) == {r.role : r \in {x \in user_roles : x.user_id = uid}}

\* C1: a write to students, subjects, attendance or grades by a signed-in
\* caller who holds neither the admin nor the teacher role affects no row and
\* leaves all four tables as they were; an insert ends in a policy error.
C1_UnprivilegedWriteDenied ==
  [][ (op'.table \in EntityTables /\ op'.cmd \in Writes /\ ~Privileged(op'.caller))
        => /\ students' = students
           /\ subjects' = subjects
           /\ attendance' = attendance
           /\ grades' = grades
           /\ op'.rows = 0
           /\ op'.cmd = "INSERT" => op'.status = "rls" ]_vars

\* A caller with no role at all was refused a student insert.
C1_Witness ==
  /\ op.table = "students" /\ op.cmd = "INSERT" /\ op.status = "rls"
  /\ RolesOf(op.caller) = {}

\* C2: every signed-in caller, whatever their roles, is returned every row of
\* students, subjects, attendance and grades by a read.
C2_EveryoneReadsAll ==
  /\ \A uid \in Authenticated :
       /\ Visible("students", students, uid) = students
       /\ Visible("subjects", subjects, uid) = subjects
       /\ Visible("attendance", attendance, uid) = attendance
       /\ Visible("grades", grades, uid) = grades
  /\ (op.cmd = "SELECT" /\ op.table \in EntityTables)
       => op.status = "ok" /\ op.rows = Cardinality(Relation(op.table))

\* A caller with no role read the grades table and got its row.
C2_Witness ==
  /\ op.cmd = "SELECT" /\ op.table = "grades" /\ op.rows >= 1
  /\ RolesOf(op.caller) = {}

\* C9: a delete of students (of subjects) removes exactly the attendance and
\* grade rows that reference a deleted student (subject) and no other row.
C9_DeleteCascades ==
  [][ /\ (op'.table = "students" /\ op'.cmd = "DELETE")
        => LET gone == {s.id : s \in students \ students'}
           IN /\ attendance' = {r \in attendance : r.student_id \notin gone}
              /\ grades' = {r \in grades : r.student_id \notin gone}
      /\ (op'.table = "subjects" /\ op'.cmd = "DELETE")
        => LET gone == {c.id : c \in subjects \ subjects'}
           IN /\ attendance' = {r \in attendance : r.subject_id \notin gone}
              /\ grades' = {r \in grades : r.subject_id \notin gone} ]_vars

\* A student with an attendance row and a grade row was deleted while rows of
\* another student stayed.
C9_Witness ==
  /\ op.table = "students" /\ op.cmd = "DELETE" /\ op.rows = 1
  /\ op.cascaded >= 2
  /\ attendance # {}
  /\ grades # {}


\* A statement's outcome is a rejection: an error, the table as it was.
Rejected(out, rel) == out.status # "ok" /\ out.rel = rel

\* A statement's outcome changed nothing: an error, or no row affected.
NoEffect(out, rel) == out.rel = rel /\ (out.status # "ok" \/ out.rows = 0)

\* A client score (thousandths) outside [0,100].
OutOfRange(x) == ~IsNull(x) /\ (Val(x) < 0 \/ Val(x) > 100000)

\* A client score (thousandths) whose value rounded to two decimals is outside
\* [0,100]: below -0.005 or at least 100.005.
RoundsOutOfRange(x) == ~IsNull(x) /\ (Val(x) <= -5 \/ Val(x) >= 100005)

AllPartials == PartialInputs \cup ScoreUpdates
AllExams == ExamInputs \cup ScoreUpdates

\* The grade writes whose scores satisfy Bad(partial) or Bad(exam) change
\* nothing, whoever sends them.
BadScoreWritesRefused(Bad(_)) ==
  \A uid \in Authenticated :
    /\ \A s \in StudentIds, c \in SubjectIds, p \in AllPartials, e \in AllExams :
         (Bad(p) \/ Bad(e)) => Rejected(grades_insert(uid, s, c, p, e, NULL), grades)
    /\ \A id \in GradeIds, v \in AllPartials :
         Bad(v) => NoEffect(grades_update(uid, id, "partial_score", v), grades)
    /\ \A id \in GradeIds, v \in AllExams :
         Bad(v) => NoEffect(grades_update(uid, id, "exam_score", v), grades)
    /\ \A c \in SubjectIds, recs \in Records :
         (\E s \in DOMAIN recs : Bad(recs[s].partial) \/ Bad(recs[s].exam))
           => Rejected(grades_upsert(uid, c, recs), grades)

StoredScoresInRange ==
  \A r \in grades :
    /\ IsNull(r.partial_score) \/ (Val(r.partial_score) >= 0 /\ Val(r.partial_score) <= 10000)
    /\ IsNull(r.exam_score) \/ (Val(r.exam_score) >= 0 /\ Val(r.exam_score) <= 10000)

\* C5 as stated: a grade insert or update with a partial or exam score outside
\* [0,100] is rejected and leaves grades unchanged, and every stored score
\* lies in [0,100].
C5_AsStated == BadScoreWritesRefused(OutOfRange) /\ StoredScoresInRange

\* C5, amended: a grade insert or update with a partial or exam score that,
\* rounded to two decimals, lies outside [0,100] is rejected and leaves grades
\* unchanged, and every stored score lies in [0,100].
C5_RoundedScoreRange == BadScoreWritesRefused(RoundsOutOfRange) /\ StoredScoresInRange

\* A grade write was rolled back by a CHECK constraint while a row, holding a
\* score of 100.00, is stored.
C5_Witness ==
  /\ op.table = "grades" /\ op.status = "check"
  /\ \E r \in grades : r.partial_score = {10000}

\* Writes that name a value for average are refused.
AverageNeverSupplied ==
  \A uid \in Authenticated :
    /\ \A s \in StudentIds, c \in SubjectIds :
         Rejected(grades_insert(uid, s, c, {80000}, {90000}, {8500}), grades)
    /\ \A id \in GradeIds : Rejected(grades_update(uid, id, "average", {8500}), grades)

\* C6 as stated: in every grade row the average is (partial + exam) / 2 (NULL
\* when a score is NULL), and no write supplies it.
C6_AsStated ==
  /\ \A r \in grades :
       IF IsNull(r.partial_score) \/ IsNull(r.exam_score) THEN IsNull(r.average)
       ELSE /\ ~IsNull(r.average)
            /\ 2 * Val(r.average) = Val(r.partial_score) + Val(r.exam_score)
  /\ AverageNeverSupplied

\* C6, amended: in every grade row the average is (partial + exam) / 2 rounded
\* to two decimals, a half rounded up (NULL when a score is NULL), and no
\* write supplies it.
C6_AverageRounded ==
  /\ \A r \in grades :
       IF IsNull(r.partial_score) \/ IsNull(r.exam_score) THEN IsNull(r.average)
       ELSE /\ ~IsNull(r.average)
            /\ 2 * Val(r.average) - (Val(r.partial_score) + Val(r.exam_score)) \in {0, 1}
  /\ AverageNeverSupplied

\* A row stores 80.01 and 90.00 with the average 85.01, and an update has run.
C6_Witness ==
  /\ op.table = "grades" /\ op.cmd = "UPDATE" /\ op.status = "ok" /\ op.rows = 1
  /\ \E r \in grades :
       r.partial_score = {8001} /\ r.exam_score = {9000} /\ r.average = {8501}

\* C7: an insert of a grade row for a (student, subject) pair that has a row
\* is rejected and leaves grades unchanged, and no two grade rows share their
\* (student, subject) pair.
C7_OneGradePerPair ==
  /\ \A r1, r2 \in grades :
       (r1.student_id = r2.student_id /\ r1.subject_id = r2.subject_id)
         => r1.id = r2.id
  /\ Cardinality({r.id : r \in grades}) = Cardinality(grades)
  /\ \A uid \in Authenticated, s \in StudentIds, c \in SubjectIds,
        p \in AllPartials, e \in AllExams :
       (\E r \in grades : r.student_id = s /\ r.subject_id = c)
         => Rejected(grades_insert(uid, s, c, p, e, NULL), grades)

\* A second insert for a pair was refused by the unique constraint.
C7_Witness ==
  /\ op.table = "grades" /\ op.cmd = "INSERT" /\ op.status = "unique"
  /\ grades # {}


\* C8: an attendance insert for a (date, student, subject) that has a row is
\* rejected and leaves attendance unchanged; an insert by a teacher or admin
\* for an existing student and subject on a date they have no row for
\* succeeds, also when they have a row for another date; and no two
\* attendance rows share their (date, student, subject).
C8_OneAttendancePerDay ==
  /\ \A r1, r2 \in attendance :
       (r1.date = r2.date /\ r1.student_id = r2.student_id
          /\ r1.subject_id = r2.subject_id) => r1.id = r2.id
  /\ Cardinality({r.id : r \in attendance}) = Cardinality(attendance)
  /\ \A uid \in Authenticated, d \in Dates, b \in BOOLEAN, s \in StudentIds,
        c \in SubjectIds :
       LET out == attendance_insert(uid, d, b, s, c)
           taken == \E r \in attendance :
                      r.date = d /\ r.student_id = s /\ r.subject_id = c
       IN /\ taken => Rejected(out, attendance)
          /\ (/\ ~taken
              /\ Privileged(uid)
              /\ s \in {x.id : x \in students}
              /\ c \in {x.id : x \in subjects})
               => /\ out.status = "ok"
                  /\ attendance \subseteq out.rel
                  /\ \E r \in out.rel \ attendance :
                       /\ r.date = d /\ r.student_id = s /\ r.subject_id = c
                       /\ r.present = b
                       /\ out.rel = attendance \cup {r}

\* A student has rows for two dates of one subject, and an insert for a
\* (date, student, subject) that has a row was just refused.
C8_Witness ==
  /\ op.table = "attendance" /\ op.cmd = "INSERT" /\ op.status = "unique"
  /\ \E r1, r2 \in attendance :
       r1.date # r2.date /\ r1.student_id = r2.student_id
         /\ r1.subject_id = r2.subject_id


\* The caller holds the admin role.
IsAdmin(uid) == \E r \in user_roles : r.user_id = uid /\ r.role = "admin"

\* C3: a statement of a signed-in caller who does not hold the admin role
\* leaves the role assignments as they were, and such a caller reads their
\* own role assignments and no others.
C3_OnlyAdminManagesRoles ==
  [][ /\ (op'.caller # 0 /\ ~IsAdmin(op'.caller)) => user_roles' = user_roles
      /\ \A uid \in Authenticated :
           ~IsAdmin(uid) => Visible("user_roles", user_roles, uid)
                              = {r \in user_roles : r.user_id = uid}
      /\ (op'.table = "user_roles" /\ op'.cmd = "SELECT" /\ ~IsAdmin(op'.caller))
           => op'.rows = Cardinality({r \in user_roles : r.user_id = op'.caller}) ]_vars

\* A caller who holds the teacher role only was refused a role insert.
C3_Witness ==
  /\ op.table = "user_roles" /\ op.cmd = "INSERT" /\ op.status = "rls"
  /\ RolesOf(op.caller) = {"teacher"}

\* C4: every signed-in caller reads all profile rows; a profile update leaves
\* every row of another account as it was, and every row it changed has the
\* caller's id.
C4_OwnProfileOnly ==
  [][ /\ \A uid \in Authenticated : Visible("profiles", profiles, uid) = profiles
      /\ (op'.table = "profiles" /\ op'.cmd = "UPDATE")
           => /\ \A r \in profiles : r.id # op'.caller => r \in profiles'
              /\ \A r \in profiles' \ profiles : r.id = op'.caller
              /\ {r.id : r \in profiles'} = {r.id : r \in profiles} ]_vars

\* Two profiles exist, and an update that would have given a row another id
\* was refused by the policy.
C4_Witness ==
  /\ op.table = "profiles" /\ op.cmd = "UPDATE" /\ op.status = "rls"
  /\ Cardinality(profiles) = 2

\* C10: a sign-up that adds an account adds, in the same step, one profile row
\* with the account's id and nothing else; a sign-up that fails adds neither.
C10_OneProfilePerSignup ==
  [][ (op'.table = "auth.users" /\ op'.cmd = "INSERT")
        => LET added == accounts' \ accounts
           IN /\ accounts \subseteq accounts'
              /\ Cardinality(added) <= 1
              /\ (op'.status = "ok") <=> (added # {})
              /\ added = {} => profiles' = profiles
              /\ \A a \in added :
                   /\ Cardinality({r \in profiles' : r.id = a.id}) = 1
                   /\ \A r \in profiles : r.id # a.id
                   /\ profiles' \ profiles = {r \in profiles' : r.id = a.id}
                   /\ profiles \subseteq profiles' ]_vars

\* A second account signed up and both accounts have their profile.
C10_Witness ==
  /\ op.table = "auth.users" /\ op.cmd = "INSERT" /\ op.status = "ok"
  /\ Cardinality(accounts) = 2
  /\ Cardinality(profiles) = 2

\* The characters of a text before its first "@" (all of it when it has none).
LocalPart(e) ==
  CHOOSE p \in {SubSeq(e, 1, n) : n \in 0..Len(e)} :
    /\ \A i \in 1..Len(p) : p[i] # "@"
    /\ Len(p) = Len(e) \/ e[Len(p) + 1] = "@"

\* C11: whenever a sign-up succeeds, the profile it adds has the username of
\* the account's metadata when the metadata has one, and otherwise the part
\* of the account's email before the first "@".
C11_UsernameDerived ==
  \A id \in Users \ {a.id : a \in accounts}, email \in Emails, username \in Usernames :
    LET out == auth_users_insert([id |-> id, email |-> email, username |-> username])
    IN out.status = "ok"
         => /\ Cardinality(out.rel[2] \ profiles) = 1
            /\ \A r \in out.rel[2] \ profiles :
                 /\ r.id = id
                 /\ ~IsNull(username) => r.username = username
                 /\ IsNull(username) => /\ ~IsNull(email)
                                        /\ r.username = {LocalPart(Val(email))}

\* A sign-up succeeded and a profile has the username "b", which no metadata
\* and no profile update supplies: it is the part of an email before its "@".
C11_Witness ==
  /\ op.table = "auth.users" /\ op.cmd = "INSERT" /\ op.status = "ok"
  /\ \E r \in profiles : r.username = {<<"b">>}

\* The ids of the students and of the subjects that exist.
StudentsNow == {x.id : x \in students}
SubjectsNow == {x.id : x \in subjects}

\* C16: every attendance row and every grade row references a student and a
\* subject that exist, and an insert, update or upsert that would make a row
\* reference a missing student or subject is rejected, the table unchanged.
C16_ReferentialIntegrity ==
  /\ \A r \in attendance \cup grades :
       r.student_id \in StudentsNow /\ r.subject_id \in SubjectsNow
  /\ \A uid \in Authenticated, s \in StudentIds, c \in SubjectIds :
       (s \notin StudentsNow \/ c \notin SubjectsNow)
         => /\ Rejected(attendance_insert(uid, 1, TRUE, s, c), attendance)
            /\ Rejected(grades_insert(uid, s, c, {80000}, {90000}, NULL), grades)
            /\ Rejected(attendance_upsert(uid, 1, c, [x \in {s} |-> TRUE]), attendance)
            /\ Rejected(grades_upsert(uid, c, [x \in {s} |-> PlainScores]), grades)
  /\ \A uid \in Authenticated, s \in StudentIds \ StudentsNow :
       /\ \A id \in {r.id : r \in attendance} :
            Rejected(attendance_update(uid, id, "student_id", {s}), attendance)
       /\ \A id \in {r.id : r \in grades} :
            Rejected(grades_update(uid, id, "student_id", {s}), grades)
  /\ \A uid \in Authenticated, c \in SubjectIds \ SubjectsNow :
       /\ \A id \in {r.id : r \in attendance} :
            Rejected(attendance_update(uid, id, "subject_id", {c}), attendance)
       /\ \A id \in {r.id : r \in grades} :
            Rejected(grades_update(uid, id, "subject_id", {c}), grades)

\* A statement was refused for a missing reference while attendance and grade
\* rows exist and a student or subject id is free again after a delete.
C16_Witness ==
  /\ op.status = "fk"
  /\ attendance # {} /\ grades # {}
  /\ StudentsNow # StudentIds

\* C17: each account has exactly one profile row, with its id, and each
\* profile row has the id of an account.
C17_ProfilePerAccount ==
  /\ \A a \in accounts : Cardinality({r \in profiles : r.id = a.id}) = 1
  /\ \A r \in profiles : \E a \in accounts : a.id = r.id
  /\ Cardinality(profiles) = Cardinality(accounts)

\* Two accounts exist and a caller's delete of a profile row removed nothing.
C17_Witness ==
  /\ op.table = "profiles" /\ op.cmd = "DELETE" /\ op.caller # 0 /\ op.rows = 0
  /\ Cardinality(accounts) = 2

\* C18: no two student rows share their id_number; an insert with an
\* id_number a student holds, and an update that would give a student the
\* id_number of another student, leave the table as it was, the insert with
\* an error and the update, sent by an admin or teacher, with the error of the
\* unique constraint.
C18_IdNumberUnique ==
  /\ \A a, b \in students : a.id_number = b.id_number => a.id = b.id
  /\ Cardinality({r.id : r \in students}) = Cardinality(students)
  /\ \A uid \in Authenticated, n \in IdNumbers :
       (\E r \in students : r.id_number = n)
         => Rejected(students_insert(uid, n), students)
  /\ \A uid \in Authenticated, id \in StudentIds, n \in IdNumbers :
       (\E r \in students : r.id # id /\ r.id_number = n)
         => LET out == students_update(uid, id, n)
            IN /\ NoEffect(out, students)
               /\ (Privileged(uid) /\ \E r \in students : r.id = id)
                    => out.status = "unique"

\* Two students exist and an update that would have given one the id_number
\* of the other was refused by the unique constraint.
C18_Witness ==
  /\ op.table = "students" /\ op.cmd = "UPDATE" /\ op.status = "unique"
  /\ Cardinality(students) = 2

\* C19: no two role assignments share their (user, role), every assigned role
\* is admin, teacher or student, and an insert of an assignment that exists,
\* or of a role outside the three, is rejected, the table unchanged.
C19_RolesUniqueAndClosed ==
  /\ \A a, b \in user_roles :
       (a.user_id = b.user_id /\ a.role = b.role) => a.id = b.id
  /\ Cardinality({r.id : r \in user_roles}) = Cardinality(user_roles)
  /\ \A r \in user_roles : r.role \in {"admin", "teacher", "student"}
  /\ \A uid \in Authenticated, u \in Users, role \in RoleInputs :
       (\/ \E r \in user_roles : r.user_id = u /\ r.role = role
        \/ role \notin {"admin", "teacher", "student"})
         => Rejected(user_roles_insert(uid, u, role), user_roles)

\* A user holds two roles, and an admin's insert of an assignment that exists
\* was refused by the unique constraint.
C19_Witness ==
  /\ op.table = "user_roles" /\ op.cmd = "INSERT" /\ op.status = "unique"
  /\ \E u \in Users : Cardinality(RolesOf(u)) = 2

\* A typed score the store refuses: the text of a number that, rounded to two
\* decimals, is outside [0,100].
RefusedText(t) == t.kind = "number" /\ (t.val <= -5 \/ t.val >= 100005)

\* C12: a save of the Grades or Attendance page that ends in an error stores
\* none of its records, the table being as before the save, and a save with
\* records ends in an error when the caller holds neither the admin nor the
\* teacher role or when one of its records has a score outside [0,100] or
\* names a student or subject that no longer exists; a save that succeeds
\* stores a row for each of its records.
C12_SaveAllOrNothing ==
  [][ /\ (op'.cmd = "UPSERT" /\ op'.table = "grades")
        => LET page == gradesPage[op'.caller]
               sent == DOMAIN page.grades
               bad == \/ \E s \in sent : \/ RefusedText(page.grades[s].partial)
                                         \/ RefusedText(page.grades[s].exam)
                                         \/ s \notin StudentsNow
                      \/ page.selectedSubject \notin SubjectsNow
           IN /\ op'.status # "ok" => grades' = grades
              /\ (sent # {} /\ (~Privileged(op'.caller) \/ bad)) => op'.status # "ok"
              /\ op'.status = "ok"
                   => \A s \in sent : \E r \in grades' :
                        r.student_id = s /\ r.subject_id = page.selectedSubject
      /\ (op'.cmd = "UPSERT" /\ op'.table = "attendance")
        => LET page == attendancePage[op'.caller]
               sent == page.students
               bad == \/ \E s \in sent : s \notin StudentsNow
                      \/ page.selectedSubject \notin SubjectsNow
           IN /\ op'.status # "ok" => attendance' = attendance
              /\ (sent # {} /\ (~Privileged(op'.caller) \/ bad)) => op'.status # "ok"
              /\ op'.status = "ok"
                   => \A s \in sent : \E r \in attendance' :
                        /\ r.student_id = s /\ r.subject_id = page.selectedSubject
                        /\ r.date = page.selectedDate ]_vars

\* A Grades save with a record of score 80 and a record of score 101 was
\* refused by the CHECK constraint while the table holds rows of a save
\* before it.
C12_Witness ==
  /\ op.table = "grades" /\ op.cmd = "UPSERT" /\ op.status = "check"
  /\ grades # {}
  /\ \E s1, s2 \in DOMAIN gradesPage[op.caller].grades :
       /\ gradesPage[op.caller].grades[s1].partial = NumberText(80000)
       /\ gradesPage[op.caller].grades[s2].partial = NumberText(101000)

\* The step is a submit of the Students or the Subjects page.
SubmitStep == op'.table \in {"students", "subjects"} /\ op'.cmd \in {"INSERT", "UPDATE"}

\* What a submit step did to the page it belongs to: nothing at all, or the
\* dialog closed, the editing target and the form cleared and a reload sent.
SubmitKept ==
  /\ studentsPage' = studentsPage /\ subjectsPage' = subjectsPage /\ net' = net

SubmitCleared ==
  LET u == op'.caller
  IN IF op'.table = "students"
       THEN /\ ~studentsPage'[u].isDialogOpen
            /\ studentsPage'[u].editingStudent = 0
            /\ studentsPage'[u].formData = [id_number |-> ""]
            /\ Request(u, "Students", "fetchStudents", 0, 0) \in net'
       ELSE /\ ~subjectsPage'[u].isDialogOpen
            /\ subjectsPage'[u].editingSubject = 0
            /\ subjectsPage'[u].formData = [name |-> ""]
            /\ Request(u, "Subjects", "fetchSubjects", 0, 0) \in net'

SilentDenial ==
  /\ op.table = "students" /\ op.cmd = "UPDATE" /\ op.status = "ok" /\ op.rows = 0
  /\ RolesOf(op.caller) = {"student"}
  /\ toast[op.caller] = Toast("Success", "Student updated successfully")
  /\ ~studentsPage[op.caller].isDialogOpen
  /\ students = {[id |-> 1, id_number |-> "A-1"]}

\* The step is a write of a page that the store carried out without an error.
PageMutation ==
  /\ op'.cmd \in {"INSERT", "UPDATE", "DELETE", "UPSERT"}
  /\ op'.status = "ok"
  /\ op'.caller \in Browsing

\* The page that writes a table, and the read that loads it.
PageOf(table) ==
  CASE table = "students" -> "Students"
    [] table = "subjects" -> "Subjects"
    [] table = "grades" -> "Grades"
    [] table = "attendance" -> "Attendance"

LoadOf(table) ==
  CASE table = "students" -> "fetchStudents"
    [] table = "subjects" -> "fetchSubjects"
    [] table = "grades" -> "fetchGrades"
    [] table = "attendance" -> "fetchAttendance"

Reloading(u, table, requests) ==
  \E r \in requests : r.to = u /\ r.page = PageOf(table) /\ r.fn = LoadOf(table)

\* C13 as stated: after each successful add, edit, delete or save of a page,
\* a fetch of the table the page wrote is under way for that page.
C13_AsStated ==
  [][ PageMutation => Reloading(op'.caller, op'.table, net') ]_vars

\* C13 without the Attendance page: a successful write of the Students, the
\* Subjects or the Grades page is followed by a fetch of its table.
C13_OthersReload ==
  [][ PageMutation /\ op'.table # "attendance"
        => Reloading(op'.caller, op'.table, net') ]_vars

\* A save of the Attendance page stored rows and was reported as a success,
\* and no read of that page is under way.
C13_Witness ==
  /\ op.table = "attendance" /\ op.cmd = "UPSERT" /\ op.status = "ok" /\ op.rows > 0
  /\ toast[op.caller] = Toast("Success", "Attendance saved successfully")
  /\ op.caller \in DOMAIN attendancePage
  /\ \A r \in net : r.to # op.caller

\* The step is a statement of a page that did not complete: the store, or the
\* network on the way to it, answered with an error.
PageFailure ==
  /\ op'.cmd # "none"
  /\ op'.status # "ok"
  /\ op'.caller \in Browsing

\* The notification that passes the message of the error on to the user.
ErrorShown == toast'[op'.caller] = [title |-> "Error", description |-> op'.status]

\* C14 as stated: every statement of a page, a load as well as a write, that
\* does not complete is shown to its user as an error notification carrying
\* the message of the error.
C14_AsStated == [][ PageFailure => ErrorShown ]_vars

\* C14 for the writes only: every write of a page that does not complete is
\* shown to its user as an error notification carrying the message.
C14_WritesShown == [][ PageFailure /\ op'.cmd # "SELECT" => ErrorShown ]_vars

\* C14 for the loads of the Students and the Subjects page, which do test the
\* error of the read.
C14_FormLoadsShown ==
  [][ PageFailure /\ op'.caller \in DOMAIN studentsPage \cup DOMAIN subjectsPage
        => ErrorShown ]_vars

\* The load of the students of the Grades or the Attendance page failed: its
\* user was shown nothing, and the page lists no student although the store
\* holds some.
C14_Witness ==
  /\ op.table = "students" /\ op.cmd = "SELECT" /\ op.status = "network"
  /\ op.caller \in DOMAIN gradesPage \cup DOMAIN attendancePage
  /\ toast[op.caller] = NoToast
  /\ students # {}
  /\ \A u \in DOMAIN gradesPage : gradesPage[u].students = {}
  /\ \A u \in DOMAIN attendancePage : attendancePage[u].students = {}

\* The score a text of a score field stands for, in hundredths: the number
\* typed or loaded, and 0 for a field without a number.
SentScore(t) == IF t.kind = "number" THEN {t.val \div 10} ELSE {0}

Saved == [title |-> "Success", description |-> "Grades saved successfully"]

\* C15: a save of the Grades page by a teacher or an admin succeeds and is
\* reported as saved, whatever row another caller stored for the same student
\* and subject in the meantime and whatever the page had loaded; after it the
\* stored scores of every student of the save are the scores of this save.
C15_LastWriteWins ==
  [][ op'.table = "grades" /\ op'.cmd = "UPSERT" /\ Privileged(op'.caller)
        => LET u == op'.caller
               page == gradesPage[u]
           IN /\ op'.status = "ok"
              /\ toast'[u] = Saved
              /\ \A s \in DOMAIN page.grades :
                   \E r \in grades' :
                     /\ r.student_id = s /\ r.subject_id = page.selectedSubject
                     /\ r.partial_score = SentScore(page.grades[s].partial)
                     /\ r.exam_score = SentScore(page.grades[s].exam)
                     /\ \A q \in grades' :
                          q.student_id = s /\ q.subject_id = page.selectedSubject => q = r
    ]_vars

\* Both callers saved a partial score for student 1, 80 the one and 60 the
\* other: both were told their grades were saved, the reload of the first is
\* still under way, and the store holds the 60 of the save applied last.
C15_Witness ==
  \E u, v \in {1, 2} :
    /\ u # v
    /\ op.table = "grades" /\ op.cmd = "UPSERT" /\ op.caller = v /\ op.status = "ok"
    /\ toast[u] = Saved /\ toast[v] = Saved
    /\ u \in DOMAIN gradesPage /\ v \in DOMAIN gradesPage
    /\ 1 \in DOMAIN gradesPage[u].grades /\ 1 \in DOMAIN gradesPage[v].grades
    /\ gradesPage[u].grades[1].partial = NumberText(80000)
    /\ gradesPage[v].grades[1].partial = NumberText(60000)
    /\ \E r \in net : r.to = u /\ r.fn = "fetchGrades"
    /\ \E r \in net : r.to = v /\ r.fn = "fetchGrades"
    /\ Cardinality(grades) = 1
    /\ \A r \in grades : r.partial_score = {6000}

\* The username a sign-up asks for: the one of its metadata, else the part of
\* its email before the first "@", else none.
AskedUsername(email, username) ==
  IF username # {} THEN username
  ELSE IF email # {} THEN {LocalPart(CHOOSE e \in email : TRUE)}
  ELSE {}

\* C24: a sign-up whose username, taken from the metadata or else from the
\* email, is the username of a profile that exists is rejected as a whole:
\* no account and no profile is added and the profiles are as they were.
C24_CollisionRejectsSignup ==
  \A id \in Users \ {a.id : a \in accounts}, email \in Emails, username \in Usernames :
    LET asked == AskedUsername(email, username)
        out == auth_users_insert([id |-> id, email |-> email, username |-> username])
    IN (asked # {} /\ \E r \in profiles : r.username = asked)
         => /\ out.status # "ok"
            /\ out.rows = 0
            /\ out.rel = <<accounts, profiles>>

\* The one account is a@x with the profile "a", and the sign-up that was just
\* sent (a@y, or a metadata username "a") was refused for its username.
C24_Witness ==
  /\ op.table = "auth.users" /\ op.cmd = "INSERT" /\ op.status = "unique"
  /\ accounts = {[id |-> 1]}
  /\ \E r \in profiles : r.id = 1 /\ r.username = {<<"a">>}
  /\ Cardinality(profiles) = 1

\* C23: from a store without role assignments, sign-ups and the statements of
\* signed-in callers never create one, so that no caller ever holds a role
\* and the students, subjects, attendance and grades stay what they were.
C23_NoRoleFromNone ==
  /\ user_roles = {}
  /\ students = {[id |-> 1, id_number |-> "A-1"]}
  /\ subjects = {[id |-> 1, name |-> "Math"]}
  /\ attendance = {[id |-> 1, date |-> 1, present |-> TRUE, student_id |-> 1,
                    subject_id |-> 1]}
  /\ \A r \in grades : /\ r.id = 1 /\ r.student_id = 1 /\ r.subject_id = 1
                       /\ r.partial_score = {8000} /\ r.exam_score = {9000}
  /\ Cardinality(grades) = 1

\* Two accounts signed up, and one of them just tried to give itself a role:
\* the insert into user_roles was refused by the policies.
C23_Witness ==
  /\ Cardinality(accounts) = 2
  /\ op.table = "user_roles" /\ op.cmd = "INSERT" /\ op.status = "rls"
  /\ op.caller \in {a.id : a \in accounts}
  /\ user_roles = {}

\* The step is a save of the Attendance page that the store carried out.
AttendanceSaved ==
  op'.table = "attendance" /\ op'.cmd = "UPSERT" /\ op'.status = "ok"

\* C25: after a successful save of the Attendance page the store holds, for
\* the selected date and subject, exactly one row for every student of the
\* page's list, present as the student's checkbox shows and FALSE for a
\* student without an entry; the rows of other dates and subjects are
\* untouched; and a successful save that follows a successful save of the same
\* page directly leaves the table as it is.
C25_SaveStoresCheckboxes ==
  [][ AttendanceSaved
        => LET u == op'.caller
               page == attendancePage[u]
               here(r) == r.date = page.selectedDate /\ r.subject_id = page.selectedSubject
           IN /\ \A s \in page.students :
                   /\ Cardinality({r \in attendance' : here(r) /\ r.student_id = s}) = 1
                   /\ \A r \in attendance' :
                        here(r) /\ r.student_id = s
                          => r.present = (s \in DOMAIN page.attendance /\ page.attendance[s])
              /\ {r \in attendance' : ~here(r)} = {r \in attendance : ~here(r)}
              /\ (op.table = "attendance" /\ op.cmd = "UPSERT" /\ op.status = "ok"
                    /\ op.caller = u)
                   => attendance' = attendance
    ]_vars

\* A save stored a row for a student whose checkbox was never set, as absent,
\* next to the row of a student marked present, and the row of the other date
\* is still there.
C25_Witness ==
  /\ op.table = "attendance" /\ op.cmd = "UPSERT" /\ op.status = "ok" /\ op.rows = 2
  /\ op.caller \in DOMAIN attendancePage
  /\ DOMAIN attendancePage[op.caller].attendance = {1}
  /\ attendancePage[op.caller].students = {1, 2}
  /\ \E r \in attendance : r.student_id = 1 /\ r.present
  /\ \E r \in attendance : r.student_id = 2 /\ ~r.present

\* The step is a save of the Grades page that the store carried out.
GradesSaved == op'.table = "grades" /\ op'.cmd = "UPSERT" /\ op'.status = "ok"

\* A score field without a number: never set, or emptied.
Blank(t) == t.kind \in {"undefined", "empty"}

\* C26: a successful save of the Grades page writes, under the selected
\* subject, the row of every student with an entry in the page's grades map
\* and of no other student; a score of an entry that is missing or empty is
\* stored as 0 and a typed or loaded number as that number.
C26_SaveWritesEntries ==
  [][ GradesSaved
        => LET page == gradesPage[op'.caller]
               sent == DOMAIN page.grades
               written(r) == r.subject_id = page.selectedSubject /\ r.student_id \in sent
           IN /\ op'.rows = Cardinality(sent)
              /\ {r \in grades' : ~written(r)} = {r \in grades : ~written(r)}
              /\ \A s \in sent :
                   \E r \in grades' :
                     /\ written(r) /\ r.student_id = s
                     /\ Blank(page.grades[s].partial) => r.partial_score = {0}
                     /\ Blank(page.grades[s].exam) => r.exam_score = {0}
                     /\ ~Blank(page.grades[s].partial)
                          => r.partial_score = {page.grades[s].partial.val \div 10}
                     /\ ~Blank(page.grades[s].exam)
                          => r.exam_score = {page.grades[s].exam.val \div 10}
    ]_vars

\* A save stored the row of a student for whom only the partial score, 80,
\* was typed: the exam score of the row is 0 and the average 40.  The other
\* student, without an entry, has no row.
C26_Witness ==
  /\ op.table = "grades" /\ op.cmd = "UPSERT" /\ op.status = "ok" /\ op.rows = 1
  /\ \E s \in DOMAIN gradesPage[op.caller].grades :
       /\ gradesPage[op.caller].grades[s].partial = [kind |-> "number", val |-> 80000]
       /\ gradesPage[op.caller].grades[s].exam.kind = "undefined"
       /\ \E r \in grades : /\ r.student_id = s /\ r.partial_score = {8000}
                            /\ r.exam_score = {0} /\ r.average = {4000}
  /\ gradesPage[op.caller].students = {1, 2}
  /\ Cardinality(grades) = 1

\* The grades map of page holds, for each of its entries, the texts of the
\* scores stored for the student under the selected subject.
ShowsStored(page) ==
  \A s \in DOMAIN page.grades :
    \E r \in grades :
      /\ r.student_id = s /\ r.subject_id = page.selectedSubject
      /\ r.partial_score # {} /\ r.exam_score # {}
      /\ page.grades[s].partial =
           [kind |-> "number", val |-> 10 * (CHOOSE v \in r.partial_score : TRUE)]
      /\ page.grades[s].exam =
           [kind |-> "number", val |-> 10 * (CHOOSE v \in r.exam_score : TRUE)]

\* C27: a save of the Grades page is never refused for UNIQUE(student_id,
\* subject_id); a successful one keeps the row of a pair that had one, under
\* its id, and leaves one row per pair; and a successful save of a map that
\* shows the stored scores leaves the table, scores and averages, as it is.
C27_UpsertReplacesInPlace ==
  [][ op'.table = "grades" /\ op'.cmd = "UPSERT"
        => LET page == gradesPage[op'.caller]
           IN /\ op'.status # "unique"
              /\ op'.status = "ok"
                   => /\ \A r \in grades :
                           \E q \in grades' : /\ q.id = r.id
                                              /\ q.student_id = r.student_id
                                              /\ q.subject_id = r.subject_id
                      /\ \A q1, q2 \in grades' :
                           q1.student_id = q2.student_id /\ q1.subject_id = q2.subject_id
                             => q1 = q2
                      /\ ShowsStored(page) => grades' = grades
    ]_vars

\* The page loaded the two rows of an earlier save, one of them with the
\* partial score 0 of an emptied field (a text no user of the model types),
\* and saved them again unedited: both pairs had a row, the save succeeded and
\* the two rows hold the scores the page shows.
C27_Witness ==
  /\ op.table = "grades" /\ op.cmd = "UPSERT" /\ op.status = "ok" /\ op.rows = 2
  /\ Cardinality(grades) = 2
  /\ \E r \in grades : r.partial_score = {0} /\ r.exam_score = {9000}
  /\ \E r \in grades : r.partial_score = {8000} /\ r.exam_score = {9000}
  /\ LET page == gradesPage[op.caller]
     IN /\ DOMAIN page.grades = {1, 2}
        /\ \A s \in {1, 2} :
             /\ page.grades[s].partial.kind = "number"
             /\ page.grades[s].exam.kind = "number"
        /\ ShowsStored(page)

\* A text the user of SpecSelections can have typed, or a field left alone.
TypedOrBlank(t) == t.kind \in {"undefined", "empty"} \/ t = [kind |-> "number", val |-> 60000]

\* The text is the one a load shows for a score stored under subject c for
\* student s.
StoredUnder(t, c, s, col) ==
  \E r \in grades :
    /\ r.student_id = s /\ r.subject_id = c
    /\ LET v == IF col = "partial" THEN r.partial_score ELSE r.exam_score
       IN v # {} /\ t = [kind |-> "number", val |-> 10 * (CHOOSE x \in v : TRUE)]

\* C21 as stated, where the user types nothing but 60: every score of a record
\* that a save writes under the selected subject was typed by the user or is
\* a score stored under that subject.
C21_AsStated ==
  [][ GradesSaved
        => LET page == gradesPage[op'.caller]
               c == page.selectedSubject
           IN \A s \in DOMAIN page.grades :
                /\ TypedOrBlank(page.grades[s].partial)
                     \/ StoredUnder(page.grades[s].partial, c, s, "partial")
                /\ TypedOrBlank(page.grades[s].exam)
                     \/ StoredUnder(page.grades[s].exam, c, s, "exam")
    ]_vars

\* A save wrote the scores 80 and 90, which the page had loaded for subject
\* 1, as the grade of subject 2: the user never typed them and subject 2 had
\* no grade.
C21_Witness ==
  /\ op.table = "grades" /\ op.cmd = "UPSERT" /\ op.status = "ok"
  /\ gradesPage[op.caller].selectedSubject = 2
  /\ \E r \in grades : /\ r.subject_id = 2 /\ r.student_id = 1
                       /\ r.partial_score = {8000} /\ r.exam_score = {9000}

\* The same with Save pressed while the read of subject 2 is still under way.
C21_WitnessBeforeFetch ==
  /\ C21_Witness
  /\ \E r \in net : r.to = op.caller /\ r.fn = "fetchGrades" /\ r.subject = 2
  /\ \A r \in net : r.fn = "fetchGrades" => r.subject = 2

\* The same with the read of subject 2 answered before the save and the read
\* of subject 1, started earlier, answered after it.
C21_WitnessOutOfOrder ==
  /\ op.table = "grades" /\ op.cmd = "SELECT" /\ op.status = "ok" /\ op.rows = 1
  /\ 1 \in DOMAIN gradesPage
  /\ gradesPage[1].selectedSubject = 2
  /\ grades = {r \in grades : r.subject_id = 1}
  /\ \A r \in net : r.fn # "fetchGrades"
  /\ 1 \in DOMAIN gradesPage[1].grades
  /\ gradesPage[1].grades[1].partial = [kind |-> "number", val |-> 80000]

\* The present/absent marks stored for a subject and a date, by student.
StoredMarks(c, d) ==
  LET rows == {r \in attendance : r.subject_id = c /\ r.date = d}
  IN [s \in {r.student_id : r \in rows} |->
        \E r \in rows : r.student_id = s /\ r.present]

\* C22 as stated, for a page that is never edited over a store that does not
\* change: once no read of attendance is under way, the map the page shows
\* is the stored marks of the selected subject and date.
C22_AsStated ==
  \A u \in DOMAIN attendancePage :
    LET page == attendancePage[u]
    IN (page.selectedSubject # 0
          /\ \A r \in net : ~(r.to = u /\ r.fn = "fetchAttendance"))
         => page.attendance = StoredMarks(page.selectedSubject, page.selectedDate)

\* Date 2 is selected, for which nothing is stored, every read has been
\* answered, the last answer being the one for date 1, and the page shows
\* the student as present.
C22_Witness ==
  /\ op.table = "attendance" /\ op.cmd = "SELECT" /\ op.status = "ok" /\ op.rows = 1
  /\ net = {}
  /\ 1 \in DOMAIN attendancePage
  /\ attendancePage[1].selectedSubject = 1
  /\ attendancePage[1].selectedDate = 2
  /\ attendancePage[1].attendance = [s \in {1} |-> TRUE]
  /\ \A r \in attendance : r.date = 1

====
